---- MODULE Spec2Model ----
(***************************************************************************)
(* Orbital Risk Authority backend: the catalog loader and regime           *)
(* classifier (backend/catalog.py), the history snapshot generation tool   *)
(* (backend/tools/make_history_snapshot.py) and the history readers and    *)
(* delta endpoints (backend/main.py), as a state machine over the files    *)
(* they read and write.                                                    *)
(*                                                                         *)
(* Units.  Mean motion and eccentricity are carried in hundredths          *)
(* (11.25 rev/day is 1125, 0.25 is 25); a zone pressure index is carried   *)
(* in ten-thousandths (100.0 is 1000000); altitudes are whole kilometres;  *)
(* timestamps are ticks of the wall clock / of the source's mtime.         *)
(***************************************************************************)
EXTENDS Integers, Sequences, FiniteSets, TLC

VARIABLES
    files,    \* the file system: path -> text, for the paths that exist
    source,   \* backend/data/active-satellites.csv: exists, mtime, rows
    tracked,  \* backend/data/tracked_total.json: "absent", "bad" or "ok"
    now,      \* the wall clock (UTC), in ticks
    cache,    \* the API process's lru_cache(maxsize=1) slot: <<>> or <<result>>
    runs,     \* the runs of the tool in progress, by process: where main() is
    op        \* the last operation executed, with its inputs and its result

vars == <<files, source, tracked, now, cache, runs, op>>

----------------------------------------------------------------------------
(* Bounds of the model *)

\* the clock readings at which Spec runs the tool or lets time pass
MaxNow == 2
\* the same for SpecNoForce, whose runs have fewer inputs
MaxNowNoForce == 3
\* the dates --date is given
MaxDate == 2
MaxDateNoForce == 3
\* the dates files are placed under by hand
MaxFiles == 3
MaxLimit == 3
MaxRows == 2
\* the counts and cohort maxima the pressure index is computed for
MaxCount == 20
MaxCohort == 16
\* the rows of the catalogs the zone aggregation is computed for
MaxZoneRows == 4
\* the altitudes (km) the zone lookup is applied to
MaxZoneAltitude == 2100

TicksPerDay == 2

----------------------------------------------------------------------------
(* Floating point values *)

\* float("nan"): every ordered comparison with it is false
NaN == -999999

FLt(a, b) == a # NaN /\ b # NaN /\ a < b
FLe(a, b) == a # NaN /\ b # NaN /\ a <= b
FGe(a, b) == a # NaN /\ b # NaN /\ a >= b
FGt(a, b) == a # NaN /\ b # NaN /\ a > b

\* the mean motions (hundredths of rev/day) and eccentricities (hundredths)
\* the model draws its rows from
MeanMotions ==
    { -100, 0, 25, 50, 94, 95, 100, 105, 106, 500, 1124, 1125,
      1250, 1350, 1450, 1550, 1650, 1800, NaN }

Eccentricities == { 0, 1, 24, 25, 30, 90, NaN }

----------------------------------------------------------------------------
(* catalog.py: the orbital classifier *)

LEO_MIN_MM == 1125
GEO_MIN_MM == 95
GEO_MAX_MM == 105
MAX_ECC == 25

\* classify_regime with the upper end of the GEO band left out: 1.05 falls to MEO
classify_regime_geo_upper_exclusive(mm, ecc) ==
    IF FLe(mm, 0) THEN "None"
    ELSE IF FGe(mm, LEO_MIN_MM) /\ FLt(ecc, MAX_ECC) THEN "LEO"
    ELSE IF FLe(GEO_MIN_MM, mm) /\ FLt(mm, GEO_MAX_MM) /\ FLt(ecc, MAX_ECC) THEN "GEO"
    ELSE IF FLe(GEO_MAX_MM, mm) /\ FLt(mm, LEO_MIN_MM) /\ FLt(ecc, MAX_ECC) THEN "MEO"
    ELSE "None"

\* the third (last, hence effective) definition of classify_regime
classify_regime(mm, ecc) ==
    IF FLe(mm, 0) THEN "None"
    ELSE IF FGe(mm, LEO_MIN_MM) /\ FLt(ecc, MAX_ECC) THEN "LEO"
    ELSE IF FLe(GEO_MIN_MM, mm) /\ FLe(mm, GEO_MAX_MM) /\ FLt(ecc, MAX_ECC) THEN "GEO"
    ELSE IF FLt(GEO_MAX_MM, mm) /\ FLt(mm, LEO_MIN_MM) /\ FLt(ecc, MAX_ECC) THEN "MEO"
    ELSE "None"

Regimes == <<"LEO", "MEO", "GEO">>

RECURSIVE CountRegime(_, _)
CountRegime(objects, r) ==
    IF objects = <<>> THEN 0
    ELSE CountRegime(Tail(objects), r)
         + (IF classify_regime(Head(objects).mean_motion, Head(objects).eccentricity) = r
            THEN 1 ELSE 0)

\* count_active_regimes with a fallback branch: an object of no regime is
\* counted as MEO
count_active_regimes_fallback_MEO(objects) ==
    [LEO |-> CountRegime(objects, "LEO"),
     MEO |-> CountRegime(objects, "MEO") + CountRegime(objects, "None"),
     GEO |-> CountRegime(objects, "GEO")]

count_active_regimes(objects) ==
    [LEO |-> CountRegime(objects, "LEO"),
     MEO |-> CountRegime(objects, "MEO"),
     GEO |-> CountRegime(objects, "GEO")]

----------------------------------------------------------------------------
(* catalog.py: the catalog loader *)

\* A CSV field as csv.DictReader hands it over: the text of a number
\* ("num", v), the empty string, a whitespace-only string, a text that is no
\* number, None (a short row: DictReader's restval), or no such column.
Num(v) == [t |-> "num", v |-> v]
EmptyField == [t |-> "empty", v |-> 0]
SpaceField == [t |-> "space", v |-> 0]
GarbageField == [t |-> "garbage", v |-> 0]
NoneField == [t |-> "none", v |-> 0]
NoColumn == [t |-> "nocol", v |-> 0]

\* An OBJECT_NAME field: a text (a sequence of characters), None or no column
NameText(s) == [t |-> "text", s |-> s]
NameNone == [t |-> "none", s |-> <<>>]
NameNoColumn == [t |-> "nocol", s |-> <<>>]

Row(name, mm, ecc) == [OBJECT_NAME |-> name, MEAN_MOTION |-> mm, ECCENTRICITY |-> ecc]

IsSpace(c) == c = " "

RECURSIVE LStrip(_)
LStrip(s) == IF s # <<>> /\ IsSpace(Head(s)) THEN LStrip(Tail(s)) ELSE s

RECURSIVE RStrip(_)
RStrip(s) ==
    IF s # <<>> /\ IsSpace(s[Len(s)]) THEN RStrip(SubSeq(s, 1, Len(s) - 1)) ELSE s

\* str.strip()
Strip(s) == RStrip(LStrip(s))

\* float(raw.get(COLUMN, "0") or 0.0): [ok, v]; not ok is a ValueError
ParseFloat(field) ==
    CASE field.t = "num" -> [ok |-> TRUE, v |-> field.v]
      [] field.t \in {"empty", "none", "nocol"} -> [ok |-> TRUE, v |-> 0]
      [] OTHER -> [ok |-> FALSE, v |-> 0]

\* one pass of the loop body: the record the row produces, if any
RowRecords(raw) ==
    LET mm == ParseFloat(raw.MEAN_MOTION)
        ecc == ParseFloat(raw.ECCENTRICITY)
        name == Strip(raw.OBJECT_NAME.s)
    IN IF ~mm.ok \/ ~ecc.ok THEN <<>>
       ELSE IF name = <<>> THEN <<>>
       ELSE << [object_name |-> name, mean_motion |-> mm.v, eccentricity |-> ecc.v] >>

RECURSIVE LoadRows(_)
LoadRows(rows) ==
    IF rows = <<>> THEN <<>> ELSE RowRecords(Head(rows)) \o LoadRows(Tail(rows))

\* None.strip() is an AttributeError, which the loop does not catch
NameRaises(rows) == \E i \in DOMAIN rows : rows[i].OBJECT_NAME.t = "none"

\* load_active_catalog that answers an absent source with an empty catalog
load_active_catalog_empty_when_missing(src) ==
    IF ~src.exists THEN [raised |-> "", rows |-> <<>>]
    ELSE IF NameRaises(src.rows) THEN [raised |-> "AttributeError", rows |-> <<>>]
    ELSE [raised |-> "", rows |-> LoadRows(src.rows)]

\* [raised, rows]: raised is "" or the exception that leaves the function
load_active_catalog(src) ==
    IF ~src.exists THEN [raised |-> "FileNotFoundError", rows |-> <<>>]
    ELSE IF NameRaises(src.rows) THEN [raised |-> "AttributeError", rows |-> <<>>]
    ELSE [raised |-> "", rows |-> LoadRows(src.rows)]

\* "unknown" when the source is absent
Unknown == -2

get_snapshot_timestamp_iso(src) == IF ~src.exists THEN Unknown ELSE src.mtime

\* load_active_catalog_cached that never uses the slot
load_active_catalog_cached_always_loads(c, src) ==
    LET r == load_active_catalog(src)
    IN [raised |-> r.raised, rows |-> r.rows, loaded |-> TRUE,
        cache |-> IF r.raised = "" THEN << r.rows >> ELSE <<>>]

\* @lru_cache(maxsize=1) around load_active_catalog: [raised, rows, loaded,
\* cache]; a hit returns the slot's result, a miss calls the loader and stores
\* its result, an exception is not stored
load_active_catalog_cached(c, src) ==
    IF c # <<>>
    THEN [raised |-> "", rows |-> c[1], loaded |-> FALSE, cache |-> c]
    ELSE LET r == load_active_catalog(src)
         IN [raised |-> r.raised, rows |-> r.rows, loaded |-> TRUE,
             cache |-> IF r.raised = "" THEN << r.rows >> ELSE <<>>]

\* load_active_catalog_cached.cache_clear()
clear_catalog_cache(c) == <<>>

----------------------------------------------------------------------------
(* catalog.py: altitude and LEO zones *)

EARTH_RADIUS_KM == 6378
MAX_ALTITUDE_KM == 100000

\* a - EARTH_RADIUS_KM with a = (MU / n^2)^(1/3), n = mm * 2 pi / 86400, rounded
\* down to whole kilometres, for the mean motions of the model
RawAltitudeKm(mm) ==
    CASE mm = 25 -> 100062
      [] mm = 50 -> 60675
      [] mm = 94 -> 37641
      [] mm = 95 -> 37332
      [] mm = 100 -> 35862
      [] mm = 105 -> 34511
      [] mm = 106 -> 34253
      [] mm = 500 -> 8068
      [] mm = 1124 -> 2040
      [] mm = 1125 -> 2035
      [] mm = 1250 -> 1464
      [] mm = 1350 -> 1072
      [] mm = 1450 -> 725
      [] mm = 1550 -> 416
      [] mm = 1650 -> 139
      [] mm = 1800 -> -228

\* [k, km]: k is "km", "none" (None) or "nan"
mean_motion_to_altitude_km(mm) ==
    IF FLe(mm, 0) THEN [k |-> "none", km |-> 0]
    ELSE IF mm = NaN THEN [k |-> "nan", km |-> 0]
    ELSE IF RawAltitudeKm(mm) < 0 \/ RawAltitudeKm(mm) > MAX_ALTITUDE_KM
         THEN [k |-> "none", km |-> 0]
    ELSE [k |-> "km", km |-> RawAltitudeKm(mm)]

\* the zones table of compute_leo_zones_from_active_catalog, in dict order
ZONES ==
    << [label |-> "LEO-1", lo |-> 300, hi |-> 500],
       [label |-> "LEO-2", lo |-> 500, hi |-> 800],
       [label |-> "LEO-3", lo |-> 800, hi |-> 1200],
       [label |-> "LEO-4", lo |-> 1200, hi |-> 2000] >>

InZone(alt, z) == alt.k = "km" /\ z.lo <= alt.km /\ alt.km < z.hi

\* leo_zone_for_altitude with each boundary put into the lower bin
leo_zone_for_altitude_upper_closed(alt_km) ==
    IF 300 <= alt_km /\ alt_km <= 500 THEN "LEO-1"
    ELSE IF 500 < alt_km /\ alt_km <= 800 THEN "LEO-2"
    ELSE IF 800 < alt_km /\ alt_km <= 1200 THEN "LEO-3"
    ELSE IF 1200 < alt_km /\ alt_km <= 2000 THEN "LEO-4"
    ELSE "OTHER"

\* the label of leo_zone_for_altitude (its range string is left out)
leo_zone_for_altitude(alt_km) ==
    IF 300 <= alt_km /\ alt_km < 500 THEN "LEO-1"
    ELSE IF 500 <= alt_km /\ alt_km < 800 THEN "LEO-2"
    ELSE IF 800 <= alt_km /\ alt_km < 1200 THEN "LEO-3"
    ELSE IF 1200 <= alt_km /\ alt_km < 2000 THEN "LEO-4"
    ELSE "OTHER"

\* the inner loop of compute_leo_zones_from_active_catalog: the first zone of
\* the table whose range holds the altitude, "OTHER" when the loop ends
\* without a break
InlineZone(alt) ==
    LET hits == { i \in DOMAIN ZONES : InZone(alt, ZONES[i]) }
    IN IF hits = {} THEN "OTHER"
       ELSE ZONES[CHOOSE i \in hits : \A j \in hits : i <= j].label

RECURSIVE ZoneCount(_, _)
ZoneCount(objects, z) ==
    IF objects = <<>> THEN 0
    ELSE ZoneCount(Tail(objects), z)
         + (IF InZone(mean_motion_to_altitude_km(Head(objects).mean_motion), z) THEN 1 ELSE 0)

RECURSIVE MaxOf(_)
MaxOf(seq) ==
    IF Len(seq) = 1 THEN seq[1]
    ELSE IF seq[1] >= MaxOf(Tail(seq)) THEN seq[1] ELSE MaxOf(Tail(seq))

ZPI_UNIT == 10000

\* round(num / den * 100.0, 2), in ten-thousandths
ZpiRound2(num, den) == ((2 * num * 100 * ZPI_UNIT + 100 * den) \div (200 * den)) * 100

\* lo <= None < hi is a TypeError, outside the try of the loop
ZonesRaise(objects) ==
    \E i \in DOMAIN objects : mean_motion_to_altitude_km(objects[i].mean_motion).k = "none"

\* [raised, zones] from the cached catalog's records
compute_leo_zones_from_active_catalog(objects) ==
    IF ZonesRaise(objects) THEN [raised |-> "TypeError", zones |-> <<>>]
    ELSE LET counts == [i \in DOMAIN ZONES |-> ZoneCount(objects, ZONES[i])]
             max_count == IF MaxOf(counts) = 0 THEN 1 ELSE MaxOf(counts)
         IN [raised |-> "",
             zones |-> [i \in DOMAIN ZONES |->
                          [zone_label |-> ZONES[i].label,
                           count |-> counts[i],
                           zpi |-> ZpiRound2(counts[i], max_count)]]]

----------------------------------------------------------------------------
(* The file system and JSON texts *)

\* --date / --out not given (argparse default None)
NoArg == -1

\* a path --out names outside backend/data/history
Outside == 0

\* "<d>.json" in backend/data/history is the path d, d >= 1 a date; sorted()
\* orders them by d
InHistoryDir(p) == p > Outside

\* the values of --date and of --out the model runs the tool with
DateArgs == (1 .. MaxDate) \cup {NoArg}
DateArgsNoForce == (1 .. MaxDateNoForce) \cup {NoArg}
OutArgs == {Outside, NoArg}

\* datetime.now(timezone.utc).date() of a clock reading
DateOf(t) == 1 + (t \div TicksPerDay)

\* sort_keys=True: the keys of the snapshot files in code point order
KeyOrder ==
    << "GEO", "LEO", "MEO", "active_regimes", "count", "data_snapshot_time_utc",
       "leo_zones", "snapshot_time_utc", "tracked_objects", "zone_label", "zones", "zpi" >>

IsKeyOf(d, k) == k \in DOMAIN d

\* json.dumps(d, indent=2, sort_keys=True): the members of the top-level
\* object in key order (the member values are carried as JSON values)
JsonDumps(d) ==
    LET keys == SelectSeq(KeyOrder, LAMBDA k : IsKeyOf(d, k))
    IN [valid |-> TRUE, pairs |-> [i \in DOMAIN keys |-> <<keys[i], d[keys[i]]>>]]

InvalidJson == [valid |-> FALSE, pairs |-> <<>>]

\* json.loads(text): [ok, obj]; a repeated key keeps its last value
JsonLoads(text) ==
    LET ps == text.pairs
        keys == {ps[i][1] : i \in DOMAIN ps}
        last(k) == CHOOSE i \in DOMAIN ps : ps[i][1] = k /\ \A j \in DOMAIN ps : ps[j][1] = k => j <= i
    IN [ok |-> text.valid, obj |-> [k \in keys |-> ps[last(k)][2]]]

\* a JSON text whose top-level value is a list
TopLevelList == [valid |-> TRUE, pairs |-> <<>>, toplevel |-> "list"]

IsObjectText(text) == "toplevel" \notin DOMAIN text

\* values of "snapshot_time_utc" that are strings but no timestamps: "" and a
\* text datetime.fromisoformat rejects
EmptyString == -3
NotIsoString == -4

\* JSON values of the wrong type: a zones value that is no list, a zones entry
\* that is no object, a zone_label that is no string (a number), a count,
\* zpi or regime count that is no number (a text such as "abc"), an
\* active_regimes value that is no object (a non-empty list)
NotAList == << [nonlist |-> TRUE] >>
NotAnObject == [nonobject |-> TRUE]
NonStringLabel == "<number>"
NonNumber == -777777
NotADict == [nondict |-> TRUE]

\* the labels for which label.strip() is empty
BlankLabels == {"", " "}

\* dict.get(k, default)
Get(d, k, default) == IF k \in DOMAIN d THEN d[k] ELSE default

RECURSIVE SortedSeq(_)
SortedSeq(S) ==
    IF S = {} THEN <<>>
    ELSE LET m == CHOOSE x \in S : \A y \in S : x <= y
         IN <<m>> \o SortedSeq(S \ {m})

\* sorted(HISTORY_DIR.glob("*.json"))
ListHistoryFiles(fs) == SortedSeq({p \in DOMAIN fs : InHistoryDir(p)})

----------------------------------------------------------------------------
(* tools/make_history_snapshot.py *)

\* [some, obj]: the filename-last file's JSON, or None
\* read_latest_history_snapshot that goes back to the last file it can parse
read_latest_history_snapshot_last_readable(fs) ==
    LET fl == SelectSeq(ListHistoryFiles(fs), LAMBDA d : JsonLoads(fs[d]).ok)
    IN IF fl = <<>> THEN [some |-> FALSE, obj |-> <<>>]
       ELSE [some |-> TRUE, obj |-> JsonLoads(fs[fl[Len(fl)]]).obj]

read_latest_history_snapshot(fs) ==
    LET fl == ListHistoryFiles(fs)
    IN IF fl = <<>> THEN [some |-> FALSE, obj |-> <<>>]
       ELSE LET r == JsonLoads(fs[fl[Len(fl)]])
            IN IF r.ok THEN [some |-> TRUE, obj |-> r.obj] ELSE [some |-> FALSE, obj |-> <<>>]

\* the filename-last file holds a non-empty JSON list: latest is truthy and
\* latest.get raises AttributeError
LatestIsList(fs) ==
    LET fl == ListHistoryFiles(fs)
    IN fl # <<>> /\ JsonLoads(fs[fl[Len(fl)]]).ok /\ ~IsObjectText(fs[fl[Len(fl)]])

\* latest and latest.get("data_snapshot_time_utc") == data_snapshot_time_utc and not args.force
UnchangedSource(fs, src, force) ==
    LET latest == read_latest_history_snapshot(fs)
    IN /\ latest.some
       /\ DOMAIN latest.obj # {}
       /\ "data_snapshot_time_utc" \in DOMAIN latest.obj
       /\ latest.obj["data_snapshot_time_utc"] = get_snapshot_timestamp_iso(src)
       /\ ~force

\* out, else <date>.json, else <today>.json in HISTORY_DIR
TargetPath(date, out, t) ==
    IF out # NoArg THEN out
    ELSE IF date # NoArg THEN date
    ELSE DateOf(t)

\* write_snapshot_file without the exists() guard: it always writes
write_snapshot_file_unguarded(fs, snapshot, date, out, force, t) ==
    LET out_path == TargetPath(date, out, t)
    IN [raised |-> "",
        fs |-> [p \in DOMAIN fs \cup {out_path} |->
                  IF p = out_path THEN JsonDumps(snapshot) ELSE fs[p]]]

\* [raised, fs]: SystemExit when the target exists and force is not set
write_snapshot_file(fs, snapshot, date, out, force, t) ==
    LET out_path == TargetPath(date, out, t)
    IN IF out_path \in DOMAIN fs /\ ~force
       THEN [raised |-> "SystemExit", fs |-> fs]
       ELSE [raised |-> "",
             fs |-> [p \in DOMAIN fs \cup {out_path} |->
                       IF p = out_path THEN JsonDumps(snapshot) ELSE fs[p]]]

\* Path.write_text that leaves an existing file as it is
write_text_keeping_existing(fs, out_path, text) ==
    IF out_path \in DOMAIN fs THEN fs
    ELSE [p \in DOMAIN fs \cup {out_path} |-> IF p = out_path THEN text ELSE fs[p]]

\* out_path.write_text(text): creates or replaces the file
write_text(fs, out_path, text) ==
    [p \in DOMAIN fs \cup {out_path} |-> IF p = out_path THEN text ELSE fs[p]]

TrackedContents == {"absent", "bad", "ok"}

\* [raised, block]
LoadTrackedTotalsBlock(tr) ==
    CASE tr = "absent" ->
           [raised |-> "", block |-> [tracked_objects_total |-> 0, tracked_objects_on_orbit |-> 0,
                                      payloads_on_orbit |-> 0, debris_on_orbit |-> 0]]
      [] tr = "bad" ->
           [raised |-> "JSONDecodeError", block |-> <<>>]
      [] tr = "ok" ->
           [raised |-> "", block |-> [tracked_objects_total |-> 7, tracked_objects_on_orbit |-> 5,
                                      payloads_on_orbit |-> 3, debris_on_orbit |-> 2]]

\* compute_active_regimes(), compute_leo_zones_from_active_catalog() and
\* _load_tracked_totals_block(), in main()'s order: [raised, ...] where raised
\* is the exception that ends main() before write_snapshot_file is called
BuildSnapshot(src, tr, t) ==
    LET cat == load_active_catalog(src)
        zones == compute_leo_zones_from_active_catalog(cat.rows)
        tb == LoadTrackedTotalsBlock(tr)
        raised == IF cat.raised # "" THEN cat.raised
                  ELSE IF zones.raised # "" THEN zones.raised
                  ELSE tb.raised
    IN [raised |-> raised,
        snapshot |-> IF raised # "" THEN <<>>
                     ELSE [snapshot_time_utc |-> t,
                           data_snapshot_time_utc |-> get_snapshot_timestamp_iso(src),
                           active_regimes |-> count_active_regimes(cat.rows),
                           leo_zones |-> zones.zones,
                           tracked_objects |-> tb.block]]

\* main() calling write_snapshot_file before it compares the source timestamps
RunOutcome_write_guard_first(fs, src, tr, t, date, out, force) ==
    LET b == BuildSnapshot(src, tr, t)
        w == write_snapshot_file(fs, b.snapshot, date, out, force, t)
    IN IF b.raised # ""
       THEN [rc |-> 1, error |-> b.raised, fs |-> fs, target |-> NoArg, snapshot |-> <<>>]
       ELSE IF w.raised # ""
       THEN [rc |-> 1, error |-> w.raised, fs |-> fs,
             target |-> TargetPath(date, out, t), snapshot |-> b.snapshot]
       ELSE IF UnchangedSource(fs, src, force)
       THEN [rc |-> 2, error |-> "UnchangedSource", fs |-> fs, target |-> NoArg, snapshot |-> <<>>]
       ELSE [rc |-> 0, error |-> "", fs |-> w.fs,
             target |-> TargetPath(date, out, t), snapshot |-> b.snapshot]

\* main(): [rc, error, fs, target, snapshot].  rc 2 is "return 2"; an uncaught
\* exception and SystemExit(<message>) both end the process with status 1.
RunOutcome(fs, src, tr, t, date, out, force) ==
    IF LatestIsList(fs)
    THEN [rc |-> 1, error |-> "AttributeError", fs |-> fs, target |-> NoArg, snapshot |-> <<>>]
    ELSE IF UnchangedSource(fs, src, force)
    THEN [rc |-> 2, error |-> "UnchangedSource", fs |-> fs, target |-> NoArg, snapshot |-> <<>>]
    ELSE LET b == BuildSnapshot(src, tr, t)
             w == write_snapshot_file(fs, b.snapshot, date, out, force, t)
         IN IF b.raised # ""
            THEN [rc |-> 1, error |-> b.raised, fs |-> fs, target |-> NoArg, snapshot |-> <<>>]
            ELSE IF w.raised # ""
            THEN [rc |-> 1, error |-> w.raised, fs |-> fs,
                  target |-> TargetPath(date, out, t), snapshot |-> b.snapshot]
            ELSE [rc |-> 0, error |-> "", fs |-> w.fs,
                  target |-> TargetPath(date, out, t), snapshot |-> b.snapshot]

----------------------------------------------------------------------------
(* main.py: the history readers and the delta endpoints *)

RECURSIVE LoadHistoryFrom(_, _)
LoadHistoryFrom(fs, names) ==
    IF names = <<>> THEN <<>>
    ELSE LET r == JsonLoads(fs[Head(names)])
             keep == r.ok /\ "snapshot_time_utc" \in DOMAIN r.obj /\ "active_regimes" \in DOMAIN r.obj
         IN (IF keep THEN <<r.obj>> ELSE <<>>) \o LoadHistoryFrom(fs, Tail(names))

\* _load_history_files requiring the older layout's "zones" key as well
_load_history_files_requires_zones(fs) ==
    SelectSeq(LoadHistoryFrom(fs, ListHistoryFiles(fs)), LAMBDA s : "zones" \in DOMAIN s)

\* every readable snapshot with both required keys, in filename order
_load_history_files(fs) == LoadHistoryFrom(fs, ListHistoryFiles(fs))

RECURSIVE InsertByTime(_, _)
InsertByTime(sorted, x) ==
    IF sorted = <<>> THEN <<x>>
    ELSE IF x["snapshot_time_utc"] < Head(sorted)["snapshot_time_utc"] THEN <<x>> \o sorted
    ELSE <<Head(sorted)>> \o InsertByTime(Tail(sorted), x)

RECURSIVE SortByTime(_)
SortByTime(points) ==
    IF points = <<>> THEN <<>>
    ELSE InsertByTime(SortByTime(SubSeq(points, 1, Len(points) - 1)), points[Len(points)])

RECURSIVE PointsFrom(_, _)
PointsFrom(fs, names) ==
    IF names = <<>> THEN <<>>
    ELSE LET data == JsonLoads(fs[Head(names)]).obj
         IN (IF "snapshot_time_utc" \in DOMAIN data /\ data["snapshot_time_utc"] # EmptyString
             THEN <<data>> ELSE <<>>)
            \o PointsFrom(fs, Tail(names))

\* the exception the loop of load_history_points ends with, "" if none
RECURSIVE PointsRaised(_, _)
PointsRaised(fs, names) ==
    IF names = <<>> THEN ""
    ELSE IF ~JsonLoads(fs[Head(names)]).ok THEN "JSONDecodeError"
    ELSE IF ~IsObjectText(fs[Head(names)]) THEN "AttributeError"
    ELSE PointsRaised(fs, Tail(names))

\* [raised, points]: json.loads and data.get are not guarded here, nor is
\* _parse_iso in the sort key; list.sort is stable
load_history_points(fs) ==
    LET names == ListHistoryFiles(fs)
    IN IF PointsRaised(fs, names) # ""
       THEN [raised |-> PointsRaised(fs, names), points |-> <<>>]
       ELSE IF \E i \in DOMAIN PointsFrom(fs, names) :
                  PointsFrom(fs, names)[i]["snapshot_time_utc"] = NotIsoString
       THEN [raised |-> "ValueError", points |-> <<>>]
       ELSE [raised |-> "", points |-> SortByTime(PointsFrom(fs, names))]

\* seq[-n:] for n >= 1
LastN(seq, n) == IF n >= Len(seq) THEN seq ELSE SubSeq(seq, Len(seq) - n + 1, Len(seq))

\* the exception the int(ar.get(...)) lines end with for one snapshot, "" if
\* none: .get on a value that is no object, int() of a text
RegimeCountsRaised(s) ==
    LET ar == s["active_regimes"]
    IN IF ar = NotADict THEN "AttributeError"
       ELSE IF \E k \in {"LEO", "MEO", "GEO"} : k \in DOMAIN ar /\ ar[k] = NonNumber
       THEN "ValueError"
       ELSE ""

\* the first exception over a sequence of snapshots, "" if none
RECURSIVE FirstRaised(_)
FirstRaised(snaps) ==
    IF snaps = <<>> THEN ""
    ELSE IF RegimeCountsRaised(Head(snaps)) # "" THEN RegimeCountsRaised(Head(snaps))
    ELSE FirstRaised(Tail(snaps))

RegimeCounts(s) ==
    LET ar == Get(s, "active_regimes", <<>>)
    IN [leo |-> Get(ar, "LEO", 0), meo |-> Get(ar, "MEO", 0), geo |-> Get(ar, "GEO", 0)]

RECURSIVE RegimePoints(_, _, _)
RegimePoints(snaps, prev, hasPrev) ==
    IF snaps = <<>> THEN <<>>
    ELSE LET s == Head(snaps)
             c == RegimeCounts(s)
             pt == [snapshot_time_utc |-> Get(s, "snapshot_time_utc", Unknown),
                    leo_active |-> c.leo, meo_active |-> c.meo, geo_active |-> c.geo,
                    delta_leo |-> IF hasPrev THEN c.leo - prev.leo ELSE 0,
                    delta_meo |-> IF hasPrev THEN c.meo - prev.meo ELSE 0,
                    delta_geo |-> IF hasPrev THEN c.geo - prev.geo ELSE 0]
         IN <<pt>> \o RegimePoints(Tail(snaps), c, TRUE)

\* ori_history_active_regimes that computes the deltas over the whole history
\* and cuts the window afterwards
ori_history_active_regimes_cut_after(fs, limit) ==
    LastN(RegimePoints(_load_history_files(fs), [leo |-> 0, meo |-> 0, geo |-> 0], FALSE), limit)

\* GET /ori/history/active-regimes?limit=: the points of the response
ori_history_active_regimes(fs, limit) ==
    RegimePoints(LastN(_load_history_files(fs), limit), [leo |-> 0, meo |-> 0, geo |-> 0], FALSE)

\* the exception that leaves ori_history_active_regimes, "" when it returns
ori_history_active_regimes_raised(fs, limit) ==
    FirstRaised(LastN(_load_history_files(fs), limit))

\* sorted() of the zone labels that occur in history files
LabelOrder == << NonStringLabel, "LEO-1", "LEO-2", "LEO-3", "LEO-4" >>

\* s.get("leo_zones") or s.get("zones") or []
ZonesOr(s) ==
    IF "leo_zones" \in DOMAIN s /\ s["leo_zones"] # <<>> THEN s["leo_zones"]
    ELSE IF "zones" \in DOMAIN s /\ s["zones"] # <<>> THEN s["zones"]
    ELSE <<>>

\* zones_raw: a value that is no list counts as []
ZonesRaw(s) == IF ZonesOr(s) = NotAList THEN <<>> ELSE ZonesOr(s)

\* the entries of zones_raw the loop builds a map entry for: objects whose
\* str(zone_label).strip() is not empty
Labelled(zones_raw) ==
    {i \in DOMAIN zones_raw : Get(zones_raw[i], "zone_label", "") \notin BlankLabels}

\* float(count_val or 0) / float(zpi_val or 0.0) of a text raises ValueError
ZoneMapRaised(zones_raw) ==
    \E i \in Labelled(zones_raw) :
        \/ Get(zones_raw[i], "count", Get(zones_raw[i], "estimated_object_count", 0)) = NonNumber
        \/ Get(zones_raw[i], "zpi", Get(zones_raw[i], "zone_pressure_index", 0)) = NonNumber

\* curr_map: label -> {count, zpi}; a later entry of a label replaces an earlier
ZoneMap(zones_raw) ==
    LET labelled == Labelled(zones_raw)
        labels == {zones_raw[i]["zone_label"] : i \in labelled}
        last(l) == CHOOSE i \in labelled :
                      /\ zones_raw[i]["zone_label"] = l
                      /\ \A j \in labelled : zones_raw[j]["zone_label"] = l => j <= i
    IN [l \in labels |->
          [count |-> Get(zones_raw[last(l)], "count", Get(zones_raw[last(l)], "estimated_object_count", 0)),
           zpi |-> Get(zones_raw[last(l)], "zpi", Get(zones_raw[last(l)], "zone_pressure_index", 0))]]

\* round(x, 3) of a value in ten-thousandths (ties to even)
Round3(x) ==
    LET q == x \div 10
        r == x % 10
    IN IF r < 5 THEN q * 10
       ELSE IF r > 5 THEN (q + 1) * 10
       ELSE IF q % 2 = 0 THEN q * 10 ELSE (q + 1) * 10

ZoneRows(curr_map, prev_map, include_deltas) ==
    LET labels == SelectSeq(LabelOrder, LAMBDA l : l \in DOMAIN curr_map)
        known(l) == include_deltas /\ DOMAIN prev_map # {} /\ l \in DOMAIN prev_map
    IN [i \in DOMAIN labels |->
          [zone_label |-> labels[i],
           count |-> curr_map[labels[i]].count,
           zpi |-> curr_map[labels[i]].zpi,
           delta_count |-> IF known(labels[i])
                           THEN curr_map[labels[i]].count - prev_map[labels[i]].count ELSE 0,
           delta_zpi |-> IF known(labels[i])
                         THEN Round3(curr_map[labels[i]].zpi - prev_map[labels[i]].zpi) ELSE 0]]

RECURSIVE ZonePoints(_, _, _)
ZonePoints(snaps, prev_map, include_deltas) ==
    IF snaps = <<>> THEN <<>>
    ELSE LET s == Head(snaps)
             curr_map == ZoneMap(ZonesRaw(s))
         IN << [snapshot_time_utc |-> Get(s, "snapshot_time_utc", Unknown),
                zones |-> ZoneRows(curr_map, prev_map, include_deltas)] >>
            \o ZonePoints(Tail(snaps), curr_map, include_deltas)

\* GET /ori/history/leo-zones?limit=&include_deltas=: the points of the response
ori_history_leo_zones(fs, limit, include_deltas) ==
    ZonePoints(LastN(_load_history_files(fs), IF limit < 1 THEN 1 ELSE limit), <<>>, include_deltas)

\* the exception that leaves ori_history_leo_zones, "" when it returns: any
\* exception of the body is turned into HTTPException(500)
ori_history_leo_zones_raised(fs, limit) ==
    LET snaps == LastN(_load_history_files(fs), IF limit < 1 THEN 1 ELSE limit)
    IN IF \E i \in DOMAIN snaps : ZoneMapRaised(ZonesRaw(snaps[i]))
       THEN "HTTPException" ELSE ""

\* previous_snapshot_time_utc "none": the window has no previous snapshot
NonePrev == -5

\* GET /ori/deltas/active-regimes: [raised, status, current_snapshot_time_utc,
\* previous_snapshot_time_utc, active, deltas]
get_active_regimes_delta(fs) ==
    LET snapshots == _load_history_files(fs)
        n == Len(snapshots)
        failed(e, st) == [raised |-> e, status |-> st, current_snapshot_time_utc |-> Unknown,
                          previous_snapshot_time_utc |-> Unknown, active |-> <<>>, deltas |-> <<>>]
    IN IF n < 2 THEN failed("HTTPException", 400)
       ELSE IF FirstRaised(<< snapshots[n - 1], snapshots[n] >>) # ""
       THEN failed(FirstRaised(<< snapshots[n - 1], snapshots[n] >>), 500)
       ELSE LET prev == RegimeCounts(snapshots[n - 1])
                curr == RegimeCounts(snapshots[n])
            IN [raised |-> "", status |-> 200,
                current_snapshot_time_utc |-> snapshots[n]["snapshot_time_utc"],
                previous_snapshot_time_utc |-> snapshots[n - 1]["snapshot_time_utc"],
                active |-> [LEO |-> curr.leo, MEO |-> curr.meo, GEO |-> curr.geo],
                deltas |-> [LEO |-> curr.leo - prev.leo, MEO |-> curr.meo - prev.meo,
                            GEO |-> curr.geo - prev.geo]]

\* max(1, min(10, int(limit)))
BriefWindow(limit) == IF limit < 1 THEN 1 ELSE IF limit > 10 THEN 10 ELSE limit

\* GET /ori/brief?limit=: [raised, status, snapshot_time_utc,
\* previous_snapshot_time_utc, active_regimes, active_regime_deltas,
\* leo_zones_latest]; without a previous snapshot prev_ar is {} and the
\* previous counts are 0
ori_brief(fs, limit) ==
    LET snapshots == _load_history_files(fs)
        snaps == LastN(snapshots, BriefWindow(limit))
        n == Len(snaps)
        failed(e, st) == [raised |-> e, status |-> st, snapshot_time_utc |-> Unknown,
                          previous_snapshot_time_utc |-> Unknown, active_regimes |-> <<>>,
                          active_regime_deltas |-> <<>>, leo_zones_latest |-> <<>>]
    IN IF snapshots = <<>> THEN failed("HTTPException", 400)
       ELSE IF RegimeCountsRaised(snaps[n]) # "" THEN failed(RegimeCountsRaised(snaps[n]), 500)
       ELSE IF n >= 2 /\ RegimeCountsRaised(snaps[n - 1]) # ""
       THEN failed(RegimeCountsRaised(snaps[n - 1]), 500)
       ELSE IF ori_history_leo_zones_raised(fs, 2) # "" THEN failed("HTTPException", 500)
       ELSE LET curr == RegimeCounts(snaps[n])
                prev == IF n >= 2 THEN RegimeCounts(snaps[n - 1])
                        ELSE [leo |-> 0, meo |-> 0, geo |-> 0]
                leo_hist == ori_history_leo_zones(fs, 2, TRUE)
            IN [raised |-> "", status |-> 200,
                snapshot_time_utc |-> snaps[n]["snapshot_time_utc"],
                previous_snapshot_time_utc |->
                    IF n >= 2 THEN snaps[n - 1]["snapshot_time_utc"] ELSE NonePrev,
                active_regimes |-> [LEO |-> curr.leo, MEO |-> curr.meo, GEO |-> curr.geo],
                active_regime_deltas |-> [LEO |-> curr.leo - prev.leo, MEO |-> curr.meo - prev.meo,
                                          GEO |-> curr.geo - prev.geo],
                leo_zones_latest |-> leo_hist[Len(leo_hist)].zones]

----------------------------------------------------------------------------
(* tools/validate_history.py *)

Problem(file, message) == [file |-> file, message |-> message]

\* the loop over ("LEO", "MEO", "GEO") on an active_regimes object
RECURSIVE RegimeKeyProblems(_, _, _)
RegimeKeyProblems(file, ar, keys) ==
    IF keys = <<>> THEN <<>>
    ELSE LET k == Head(keys)
         IN (IF k \notin DOMAIN ar THEN << Problem(file, "active_regimes missing key") >>
             ELSE IF ar[k] < 0 THEN << Problem(file, "active_regimes must be non-negative") >>
             ELSE <<>>)
            \o RegimeKeyProblems(file, ar, Tail(keys))

\* the active_regimes validation; Missing stands for data.get(...) giving None
RegimeProblems(file, data) ==
    IF "active_regimes" \notin DOMAIN data
    THEN << Problem(file, "Missing or invalid active_regimes") >>
    ELSE RegimeKeyProblems(file, data["active_regimes"], << "LEO", "MEO", "GEO" >>)

\* is_number
is_number(x) == x # NonNumber

\* the loop over the zones array, with labels_seen
RECURSIVE ZoneEntryProblems(_, _, _)
ZoneEntryProblems(file, zones, labels_seen) ==
    IF zones = <<>> THEN <<>>
    ELSE LET z == Head(zones)
         IN IF z = NotAnObject
            THEN << Problem(file, "zones entry must be an object") >>
                 \o ZoneEntryProblems(file, Tail(zones), labels_seen)
            ELSE IF ~({"zone_label", "count", "zpi"} \subseteq DOMAIN z)
            THEN << Problem(file, "zones missing keys") >>
                 \o ZoneEntryProblems(file, Tail(zones), labels_seen)
            ELSE LET label == z["zone_label"]
                     bad_label == label = NonStringLabel \/ label \in BlankLabels
                 IN (IF bad_label THEN << Problem(file, "zone_label must be a non-empty string") >>
                     ELSE IF label \in labels_seen THEN << Problem(file, "Duplicate zone_label") >>
                     ELSE <<>>)
                    \o (IF ~is_number(z["count"])
                        THEN << Problem(file, "count must be a number") >> ELSE <<>>)
                    \o (IF ~is_number(z["zpi"])
                        THEN << Problem(file, "zpi must be a number") >>
                        ELSE IF z["zpi"] < 0 \/ z["zpi"] > 100 * ZPI_UNIT
                        THEN << Problem(file, "zpi out of range") >> ELSE <<>>)
                    \o ZoneEntryProblems(file, Tail(zones),
                                         IF bad_label THEN labels_seen
                                         ELSE labels_seen \cup {label})

\* the leo_zones / zones validation
ZoneProblems(file, data) ==
    LET has == "leo_zones" \in DOMAIN data \/ "zones" \in DOMAIN data
        zones == IF "leo_zones" \in DOMAIN data THEN data["leo_zones"] ELSE data["zones"]
    IN IF ~has THEN << Problem(file, "Missing leo_zones or zones") >>
       ELSE IF zones = NotAList \/ zones = <<>>
       THEN << Problem(file, "zones must be a non-empty list") >>
       ELSE ZoneEntryProblems(file, zones, {})

\* the body of the loop for one parsed object: [problems, seen_times]
ValidateObject(file, data, seen_times) ==
    LET has_st == /\ "snapshot_time_utc" \in DOMAIN data
                  /\ data["snapshot_time_utc"] # EmptyString
        st == data["snapshot_time_utc"]
        head == IF ~has_st
                THEN << Problem(file, "Missing or invalid snapshot_time_utc") >>
                ELSE (IF st = NotIsoString
                      THEN << Problem(file, "Invalid snapshot_time_utc format") >> ELSE <<>>)
                     \o RegimeProblems(file, data)
                     \o (IF st \in seen_times
                         THEN << Problem(file, "Duplicate snapshot_time_utc") >> ELSE <<>>)
    IN [problems |-> head \o ZoneProblems(file, data),
        seen_times |-> IF has_st THEN seen_times \cup {st} ELSE seen_times]

\* the loop of main() over the sorted files: [raised, problems]; a top-level
\* value without .get raises AttributeError, which nothing catches
RECURSIVE ValidateFiles(_, _, _)
ValidateFiles(fs, names, seen_times) ==
    IF names = <<>> THEN [raised |-> "", problems |-> <<>>]
    ELSE LET p == Head(names)
             r == JsonLoads(fs[p])
         IN IF ~r.ok
            THEN LET rest == ValidateFiles(fs, Tail(names), seen_times)
                 IN [raised |-> rest.raised,
                     problems |-> << Problem(p, "Invalid JSON") >> \o rest.problems]
            ELSE IF ~IsObjectText(fs[p])
            THEN [raised |-> "AttributeError", problems |-> <<>>]
            ELSE LET v == ValidateObject(p, r.obj, seen_times)
                     rest == ValidateFiles(fs, Tail(names), v.seen_times)
                 IN [raised |-> rest.raised, problems |-> v.problems \o rest.problems]

\* report(): the exit status and the lines printed, one per problem
report(problems) == [rc |-> IF problems = <<>> THEN 0 ELSE 1, lines |-> problems]

\* main() and report(): [raised, rc, collected, problems]; collected is the
\* list main() has built when it ends, problems the lines it reports, which
\* it does only when it reaches report(); an uncaught exception ends the
\* process with status 1
validate_history(fs) ==
    LET names == ListHistoryFiles(fs)
        v == ValidateFiles(fs, names, {})
        none == << Problem(Outside, "No history snapshots found") >>
    IN IF names = <<>>
       THEN [raised |-> "", rc |-> report(none).rc, collected |-> none,
             problems |-> report(none).lines]
       ELSE IF v.raised # ""
       THEN [raised |-> v.raised, rc |-> 1, collected |-> v.problems, problems |-> <<>>]
       ELSE [raised |-> "", rc |-> report(v.problems).rc, collected |-> v.problems,
             problems |-> report(v.problems).lines]

----------------------------------------------------------------------------
(* main.py: the pressure index *)

\* a pressure index is carried in tenths (100.0 is 1000)
PI_UNIT == 10

\* round(num / den * 100.0, 1) for den > 0, in tenths: the nearest tenth, a tie
\* going to the even one (a tie needs 16 | den, and then the float is exact)
PressureRound1(num, den) ==
    LET q == (100 * PI_UNIT * num) \div den
        r == (100 * PI_UNIT * num) % den
    IN IF 2 * r < den THEN q
       ELSE IF 2 * r > den THEN q + 1
       ELSE IF q % 2 = 0 THEN q ELSE q + 1

\* compute_zone_pressure without the min(100.0, ...)
compute_zone_pressure_unclamped(count, max_count) ==
    IF max_count <= 0 THEN 0 ELSE PressureRound1(count, max_count)

\* round(min(100.0, (count / max_count) * 100.0), 1)
compute_zone_pressure(count, max_count) ==
    IF max_count <= 0 THEN 0
    ELSE IF count >= max_count THEN 100 * PI_UNIT
    ELSE PressureRound1(count, max_count)

compute_fleet_pressure(fleet_size, max_size) ==
    IF max_size <= 0 THEN 0
    ELSE IF fleet_size >= max_size THEN 100 * PI_UNIT
    ELSE PressureRound1(fleet_size, max_size)

----------------------------------------------------------------------------
(* The catalogs and the history files of the model *)

SatName == << "S" >>

\* LEO (zone LEO-1), GEO, MEO and a row whose mean motion is no number
TableA ==
    << Row(NameText(SatName), Num(1550), Num(1)),
       Row(NameText(SatName), Num(100), Num(0)),
       Row(NameText(SatName), Num(500), Num(1)),
       Row(NameText(SatName), GarbageField, Num(0)) >>

\* two LEO (zones LEO-1 and LEO-4) and an eccentric object at a LEO-2 altitude
TableB ==
    << Row(NameText(SatName), Num(1550), Num(1)),
       Row(NameText(SatName), Num(1250), Num(0)),
       Row(NameText(SatName), Num(1450), Num(30)) >>

\* a row with an empty MEAN_MOTION field
TableC ==
    << Row(NameText(SatName), Num(1550), Num(1)),
       Row(NameText(SatName), EmptyField, Num(0)) >>

SourceTables == {TableA, TableB, TableC}

\* a snapshot file of the older layout: "zones" with three labels
LegacySnapshot ==
    [snapshot_time_utc |-> 0,
     active_regimes |-> [LEO |-> 1, MEO |-> 0, GEO |-> 0],
     zones |-> << [zone_label |-> "LEO-1", count |-> 1, zpi |-> 100 * ZPI_UNIT],
                  [zone_label |-> "LEO-2", count |-> 0, zpi |-> 0],
                  [zone_label |-> "LEO-3", count |-> 0, zpi |-> 0] >>]

\* a snapshot file the tool wrote at time t from the source (mtime m, rows)
ToolText(m, rows, t) ==
    JsonDumps(BuildSnapshot([exists |-> TRUE, mtime |-> m, rows |-> rows], "absent", t).snapshot)

PlacedTexts ==
    { JsonDumps(LegacySnapshot), InvalidJson,
      ToolText(1, TableA, 1), ToolText(2, TableB, 2), ToolText(1, TableA, 3) }

\* a record without snapshot_time_utc whose active_regimes lacks GEO and has a
\* negative MEO
NoTimeBadRegimes ==
    [data_snapshot_time_utc |-> 5,
     active_regimes |-> [LEO |-> 1, MEO |-> -1],
     leo_zones |-> << [zone_label |-> "LEO-1", count |-> 1, zpi |-> 100 * ZPI_UNIT] >>]

\* a record whose zones hold a zpi of 137.0, a repeated label and an entry
\* without count
BadZones ==
    [snapshot_time_utc |-> 3,
     data_snapshot_time_utc |-> 3,
     active_regimes |-> [LEO |-> 1, MEO |-> 0, GEO |-> 0],
     leo_zones |-> << [zone_label |-> "LEO-1", count |-> 1, zpi |-> 137 * ZPI_UNIT],
                      [zone_label |-> "LEO-1", count |-> 0, zpi |-> 0],
                      [zone_label |-> "LEO-2", zpi |-> 0] >>]

\* a record whose snapshot_time_utc is no ISO timestamp and which has no
\* active_regimes block
BadTimeNoRegimes ==
    [snapshot_time_utc |-> NotIsoString,
     data_snapshot_time_utc |-> 4,
     zones |-> << [zone_label |-> "", count |-> 1, zpi |-> -1] >>]

\* a record whose snapshot_time_utc is the empty string and which has no zones
EmptyTimeNoZones ==
    [snapshot_time_utc |-> EmptyString,
     data_snapshot_time_utc |-> 4,
     active_regimes |-> [LEO |-> 1, MEO |-> 0, GEO |-> 0]]

\* records whose zone data have the wrong shape or type
WrongTypeZones ==
    [snapshot_time_utc |-> 4,
     data_snapshot_time_utc |-> 4,
     active_regimes |-> [LEO |-> 1, MEO |-> 0, GEO |-> 0],
     leo_zones |-> << NotAnObject,
                      [zone_label |-> NonStringLabel, count |-> NonNumber, zpi |-> 0],
                      [zone_label |-> " ", count |-> 0, zpi |-> NonNumber] >>]

ZonesNotAList ==
    [snapshot_time_utc |-> 5,
     data_snapshot_time_utc |-> 5,
     active_regimes |-> [LEO |-> 1, MEO |-> 0, GEO |-> 0],
     leo_zones |-> NotAList]

\* an empty leo_zones list beside a well-formed legacy zones list
EmptyLeoZones ==
    [snapshot_time_utc |-> 6,
     data_snapshot_time_utc |-> 6,
     active_regimes |-> [LEO |-> 1, MEO |-> 0, GEO |-> 0],
     leo_zones |-> <<>>,
     zones |-> << [zone_label |-> "LEO-1", count |-> 1, zpi |-> 100 * ZPI_UNIT] >>]

\* records whose active_regimes block has the wrong type: a list, and a text
\* for a count
RegimesNotADict ==
    [snapshot_time_utc |-> 5,
     data_snapshot_time_utc |-> 5,
     active_regimes |-> NotADict,
     leo_zones |-> << [zone_label |-> "LEO-1", count |-> 1, zpi |-> 100 * ZPI_UNIT] >>]

RegimeNotANumber ==
    [snapshot_time_utc |-> 6,
     data_snapshot_time_utc |-> 6,
     active_regimes |-> [LEO |-> NonNumber, MEO |-> 0, GEO |-> 0],
     leo_zones |-> << [zone_label |-> "LEO-1", count |-> 1, zpi |-> 100 * ZPI_UNIT] >>]

\* the files the readers are run over: two tool snapshots and bad files
ReaderTexts ==
    { ToolText(1, TableA, 1), ToolText(2, TableB, 2), InvalidJson, TopLevelList,
      JsonDumps(NoTimeBadRegimes), JsonDumps(RegimesNotADict),
      JsonDumps(RegimeNotANumber), JsonDumps(WrongTypeZones) }

\* the files the validator is run over: two tool snapshots of one source
\* timestamp, a third with the snapshot time of the first, and malformed ones
ValidatorTexts ==
    { ToolText(1, TableA, 1), ToolText(1, TableA, 2), ToolText(2, TableB, 1),
      JsonDumps(LegacySnapshot), InvalidJson, TopLevelList,
      JsonDumps(NoTimeBadRegimes), JsonDumps(BadZones),
      JsonDumps(BadTimeNoRegimes), JsonDumps(EmptyTimeNoZones),
      JsonDumps(WrongTypeZones), JsonDumps(ZonesNotAList), JsonDumps(EmptyLeoZones) }

\* the rows the loader is exercised with
SampleRows ==
    { Row(NameText(SatName), Num(1550), Num(1)),
      Row(NameText(SatName), Num(1125), Num(24)),
      Row(NameText(<< " ", "S", " " >>), Num(100), Num(0)),
      Row(NameText(SatName), Num(105), NoColumn),
      Row(NameText(SatName), Num(500), Num(1)),
      Row(NameText(SatName), Num(1450), Num(30)),
      Row(NameText(SatName), GarbageField, Num(0)),
      Row(NameText(SatName), Num(1550), SpaceField),
      Row(NameText(SatName), EmptyField, Num(0)),
      Row(NameText(<< " " >>), Num(1550), Num(0)),
      Row(NameNoColumn, Num(1550), Num(0)),
      Row(NameNone, NoneField, NoneField) }

SeqsUpTo(S, n) == UNION { [1 .. k -> S] : k \in 0 .. n }

----------------------------------------------------------------------------
(* The state machine *)

\* the processes that run the tool at the same time
Writers == {1, 2}

\* main() has not been entered
Idle ==
    [pc |-> "idle", date |-> NoArg, out |-> NoArg, data_time |-> Unknown, snapshot |-> <<>>,
     target |-> NoArg, rc |-> -1, check_no |-> 0, write_no |-> 0]

NoRuns == [p \in Writers |-> Idle]

Init ==
    /\ files = <<>>
    /\ source = [exists |-> TRUE, mtime |-> 0, rows |-> TableA]
    /\ tracked \in TrackedContents
    /\ now = 0
    /\ cache = <<>>
    /\ runs = NoRuns
    /\ op = [kind |-> "init"]

\* the wall clock advances
Tick ==
    /\ now' = now + 1
    /\ op' = [kind |-> "env"]
    /\ UNCHANGED <<files, source, tracked, cache, runs>>

\* the catalog download replaces active-satellites.csv; its mtime is the
\* clock reading
SourceUpdate(rows) ==
    /\ ~source.exists \/ source.mtime # now
    /\ source' = [exists |-> TRUE, mtime |-> now, rows |-> rows]
    /\ op' = [kind |-> "env"]
    /\ UNCHANGED <<files, tracked, now, cache, runs>>

SourceRemove ==
    /\ source.exists
    /\ source' = [exists |-> FALSE, mtime |-> Unknown, rows |-> <<>>]
    /\ op' = [kind |-> "env"]
    /\ UNCHANGED <<files, tracked, now, cache, runs>>

\* one run of tools/make_history_snapshot.py; it takes one tick
Run(date, out, force) ==
    /\ LET r == RunOutcome(files, source, tracked, now, date, out, force)
       IN /\ files' = r.fs
          /\ op' = [kind |-> "run", date |-> date, out |-> out, force |-> force,
                    rc |-> r.rc, error |-> r.error, target |-> r.target, snapshot |-> r.snapshot]
    /\ now' = now + 1
    /\ UNCHANGED <<source, tracked, cache, runs>>

HistoryActiveRegimes(limit) ==
    /\ op' = [kind |-> "ori_history_active_regimes", limit |-> limit,
              raised |-> ori_history_active_regimes_raised(files, limit),
              points |-> IF ori_history_active_regimes_raised(files, limit) # "" THEN <<>>
                         ELSE ori_history_active_regimes(files, limit)]
    /\ UNCHANGED <<files, source, tracked, now, cache, runs>>

HistoryLeoZones(limit, include_deltas) ==
    /\ op' = [kind |-> "ori_history_leo_zones", limit |-> limit, include_deltas |-> include_deltas,
              raised |-> ori_history_leo_zones_raised(files, limit),
              points |-> IF ori_history_leo_zones_raised(files, limit) # "" THEN <<>>
                         ELSE ori_history_leo_zones(files, limit, include_deltas)]
    /\ UNCHANGED <<files, source, tracked, now, cache, runs>>

\* a snapshot file is put into backend/data/history by hand
PlaceHistoryFile(d, text) ==
    /\ d \notin DOMAIN files
    /\ files' = [p \in DOMAIN files \cup {d} |-> IF p = d THEN text ELSE files[p]]
    /\ op' = [kind |-> "env"]
    /\ UNCHANGED <<source, tracked, now, cache, runs>>

Next ==
    \/ now < MaxNow /\ Tick
    \/ \E rows \in SourceTables : SourceUpdate(rows)
    \/ SourceRemove
    \/ now < MaxNow /\ \E date \in DateArgs, out \in OutArgs, force \in BOOLEAN : Run(date, out, force)

Spec == Init /\ [][Next]_vars

\* the tool is never run with --force
NextNoForce ==
    \/ now < MaxNowNoForce /\ Tick
    \/ \E rows \in SourceTables : SourceUpdate(rows)
    \/ SourceRemove
    \/ now < MaxNowNoForce /\ \E date \in DateArgsNoForce, out \in OutArgs : Run(date, out, FALSE)

SpecNoForce == Init /\ [][NextNoForce]_vars

\* the API process serves requests over a history directory that holds
\* snapshot files written by the tool and files put there by hand
NextApi ==
    \/ \E d \in 1 .. MaxFiles, text \in PlacedTexts : PlaceHistoryFile(d, text)
    \/ \E limit \in 1 .. MaxLimit : HistoryActiveRegimes(limit)
    \/ \E limit \in 0 .. MaxLimit, include_deltas \in BOOLEAN : HistoryLeoZones(limit, include_deltas)

SpecApi == Init /\ [][NextApi]_vars

\* a request handler of the API process calls load_active_catalog_cached()
CachedGet ==
    /\ LET r == load_active_catalog_cached(cache, source)
       IN /\ cache' = r.cache
          /\ op' = [kind |-> "load_active_catalog_cached", raised |-> r.raised,
                    rows |-> r.rows, loaded |-> r.loaded]
    /\ UNCHANGED <<files, source, tracked, now, runs>>

ClearCache ==
    /\ cache' = clear_catalog_cache(cache)
    /\ op' = [kind |-> "clear_catalog_cache"]
    /\ UNCHANGED <<files, source, tracked, now, runs>>

\* the API process's catalog cache while the source is replaced and removed
NextCache ==
    \/ now < MaxNow /\ Tick
    \/ \E rows \in SourceTables : SourceUpdate(rows)
    \/ SourceRemove
    \/ CachedGet
    \/ ClearCache

SpecCache == Init /\ [][NextCache]_vars

\* GET /ori/active-regimes: the cached catalog, then the source's timestamp,
\* then the counts
GetActiveRegimes ==
    /\ LET r == load_active_catalog_cached(cache, source)
       IN /\ cache' = r.cache
          /\ op' = [kind |-> "get_active_regimes", raised |-> r.raised,
                    snapshot_time_utc |-> IF r.raised # "" THEN Unknown
                                          ELSE get_snapshot_timestamp_iso(source),
                    counts |-> IF r.raised # "" THEN <<>> ELSE count_active_regimes(r.rows)]
    /\ UNCHANGED <<files, source, tracked, now, runs>>

\* GET /ori/global-summary: the cached catalog, the counts, then the source's
\* timestamp; counts are the object_count of the three orbit bands
GetGlobalRiskSummary ==
    /\ LET r == load_active_catalog_cached(cache, source)
       IN /\ cache' = r.cache
          /\ op' = [kind |-> "get_global_risk_summary", raised |-> r.raised,
                    snapshot_time_utc |-> IF r.raised # "" THEN Unknown
                                          ELSE get_snapshot_timestamp_iso(source),
                    counts |-> IF r.raised # "" THEN <<>> ELSE count_active_regimes(r.rows)]
    /\ UNCHANGED <<files, source, tracked, now, runs>>

\* the API process answers catalog requests while the source is replaced and
\* removed
NextSummary ==
    \/ now < MaxNow /\ Tick
    \/ \E rows \in SourceTables : SourceUpdate(rows)
    \/ SourceRemove
    \/ ClearCache
    \/ GetActiveRegimes
    \/ GetGlobalRiskSummary

SpecSummary == Init /\ [][NextSummary]_vars

\* the pressure index functions applied to small counts and cohort maxima
PressureIndex(fn, count, cohort_max) ==
    /\ op' = [kind |-> "pressure", fn |-> fn, count |-> count, cohort_max |-> cohort_max,
              result |-> IF fn = "zone" THEN compute_zone_pressure(count, cohort_max)
                         ELSE compute_fleet_pressure(count, cohort_max)]
    /\ UNCHANGED <<files, source, tracked, now, cache, runs>>

NextPressure ==
    \E fn \in {"zone", "fleet"}, count \in -2 .. MaxCount, cohort_max \in -1 .. MaxCohort :
        PressureIndex(fn, count, cohort_max)

SpecPressure == Init /\ [][NextPressure]_vars

\* the rows the zone aggregation is exercised with: LEO-1, LEO-4, an eccentric
\* object at a LEO-2 altitude, GEO, and a mean motion whose altitude is negative
ZoneSampleRows ==
    { Row(NameText(SatName), Num(1550), Num(1)),
      Row(NameText(SatName), Num(1250), Num(0)),
      Row(NameText(SatName), Num(1450), Num(30)),
      Row(NameText(SatName), Num(100), Num(0)),
      Row(NameText(SatName), Num(1800), Num(0)) }

InitZones ==
    /\ files = <<>>
    /\ source \in { [exists |-> TRUE, mtime |-> 1, rows |-> rows] :
                      rows \in SeqsUpTo(ZoneSampleRows, MaxZoneRows) }
    /\ tracked = "absent"
    /\ now = 0
    /\ cache = <<>>
    /\ runs = NoRuns
    /\ op = [kind |-> "init"]

\* compute_active_regimes() and compute_leo_zones_from_active_catalog() over
\* the loaded catalog, as main() of the tool calls them
ZonesOfCatalog ==
    /\ op.kind = "init"
    /\ LET cat == load_active_catalog(source)
           z == compute_leo_zones_from_active_catalog(cat.rows)
       IN op' = [kind |-> "compute_leo_zones", objects |-> cat.rows,
                 active_regimes |-> count_active_regimes(cat.rows),
                 raised |-> z.raised, zones |-> z.zones]
    /\ UNCHANGED <<files, source, tracked, now, cache, runs>>

NextZones == ZonesOfCatalog

SpecZones == InitZones /\ [][NextZones]_vars

\* leo_zone_for_altitude and the inline binning applied to an altitude
ZoneForAltitude(alt_km) ==
    /\ op.kind = "init"
    /\ op' = [kind |-> "leo_zone_for_altitude", alt_km |-> alt_km,
              label |-> leo_zone_for_altitude(alt_km),
              inline |-> InlineZone([k |-> "km", km |-> alt_km])]
    /\ UNCHANGED <<files, source, tracked, now, cache, runs>>

NextAltitude == \E alt_km \in 0 .. MaxZoneAltitude : ZoneForAltitude(alt_km)

SpecAltitude == Init /\ [][NextAltitude]_vars

\* a validator that deletes the files it cannot parse
Validate_removing_invalid ==
    /\ LET v == validate_history(files)
       IN op' = [kind |-> "validate", raised |-> v.raised, rc |-> v.rc,
                 collected |-> v.collected, problems |-> v.problems]
    /\ files' = [d \in {e \in DOMAIN files : JsonLoads(files[e]).ok} |-> files[d]]
    /\ UNCHANGED <<source, tracked, now, cache, runs>>

\* one run of tools/validate_history.py
Validate ==
    /\ LET v == validate_history(files)
       IN op' = [kind |-> "validate", raised |-> v.raised, rc |-> v.rc,
                 collected |-> v.collected, problems |-> v.problems]
    /\ UNCHANGED <<files, source, tracked, now, cache, runs>>

NextValidate ==
    \/ \E d \in 1 .. MaxFiles, text \in ValidatorTexts : PlaceHistoryFile(d, text)
    \/ Validate

SpecValidate == Init /\ [][NextValidate]_vars

\* the number of exists() tests and of write_text calls made so far
Events ==
    Cardinality({p \in Writers : runs[p].check_no > 0})
    + Cardinality({p \in Writers : runs[p].write_no > 0})

\* main() up to the guard: the source timestamp is read, then the latest
\* history file; an unchanged source ends the run with status 2
RunStart(p, date, out) ==
    /\ runs[p].pc = "idle"
    /\ runs' = [runs EXCEPT ![p] =
                  IF UnchangedSource(files, source, FALSE)
                  THEN [@ EXCEPT !.pc = "done", !.date = date, !.out = out, !.rc = 2,
                                 !.data_time = get_snapshot_timestamp_iso(source)]
                  ELSE [@ EXCEPT !.pc = "build", !.date = date, !.out = out,
                                 !.data_time = get_snapshot_timestamp_iso(source)]]
    /\ op' = [kind |-> "run_step", proc |-> p, step |-> "start"]
    /\ UNCHANGED <<files, source, tracked, now, cache>>

\* main() from datetime.now() to the snapshot dict: the catalog is loaded from
\* the source as it is now; an exception ends the run with status 1
RunBuild(p) ==
    /\ runs[p].pc = "build"
    /\ LET b == BuildSnapshot(source, tracked, now)
       IN runs' = [runs EXCEPT ![p] =
                     IF b.raised # "" THEN [@ EXCEPT !.pc = "done", !.rc = 1]
                     ELSE [@ EXCEPT !.pc = "exists",
                                    !.snapshot = [b.snapshot EXCEPT
                                                     !["data_snapshot_time_utc"] = runs[p].data_time]]]
    /\ now' = now + 1
    /\ op' = [kind |-> "run_step", proc |-> p, step |-> "build"]
    /\ UNCHANGED <<files, source, tracked, cache>>

\* write_snapshot_file up to the exists() test, force not set
RunExistsCheck(p) ==
    /\ runs[p].pc = "exists"
    /\ LET out_path == TargetPath(runs[p].date, runs[p].out, now)
       IN runs' = [runs EXCEPT ![p] =
                     IF out_path \in DOMAIN files
                     THEN [@ EXCEPT !.pc = "done", !.rc = 1, !.target = out_path,
                                    !.check_no = Events + 1]
                     ELSE [@ EXCEPT !.pc = "write", !.target = out_path,
                                    !.check_no = Events + 1]]
    /\ op' = [kind |-> "run_step", proc |-> p, step |-> "exists"]
    /\ UNCHANGED <<files, source, tracked, now, cache>>

\* out_path.write_text(...) and the return 0 of main()
RunWriteText(p) ==
    /\ runs[p].pc = "write"
    /\ files' = write_text(files, runs[p].target, JsonDumps(runs[p].snapshot))
    /\ runs' = [runs EXCEPT ![p] = [@ EXCEPT !.pc = "done", !.rc = 0, !.write_no = Events + 1]]
    /\ op' = [kind |-> "run_step", proc |-> p, step |-> "write"]
    /\ UNCHANGED <<source, tracked, now, cache>>

\* two processes run the tool without --force, nothing serializes them; the
\* source file may be replaced meanwhile
NextConcurrent ==
    \/ \E rows \in SourceTables : SourceUpdate(rows)
    \/ \E p \in Writers, date \in DateArgs, out \in OutArgs : RunStart(p, date, out)
    \/ \E p \in Writers : now < MaxNow /\ RunBuild(p)
    \/ \E p \in Writers : RunExistsCheck(p)
    \/ \E p \in Writers : RunWriteText(p)

SpecConcurrent == Init /\ [][NextConcurrent]_vars

\* the files found in the history directory when the tool is run: a snapshot
\* of the source as it is, a text that is no JSON, a JSON list
UnreadableTexts == { ToolText(0, TableA, 0), InvalidJson, TopLevelList }

\* unforced runs of the tool over a history directory with unreadable files
NextUnreadable ==
    \/ \E d \in 1 .. MaxDate, text \in UnreadableTexts : PlaceHistoryFile(d, text)
    \/ now < MaxNow /\ \E date \in DateArgs, out \in OutArgs : Run(date, out, FALSE)

SpecUnreadable == Init /\ [][NextUnreadable]_vars

\* GET /ori/deltas/active-regimes
ActiveRegimesDelta ==
    /\ LET r == get_active_regimes_delta(files)
       IN op' = [kind |-> "get_active_regimes_delta", raised |-> r.raised, status |-> r.status,
                 current_snapshot_time_utc |-> r.current_snapshot_time_utc,
                 previous_snapshot_time_utc |-> r.previous_snapshot_time_utc,
                 active |-> r.active, deltas |-> r.deltas]
    /\ UNCHANGED <<files, source, tracked, now, cache, runs>>

\* GET /ori/brief?limit=
OriBrief(limit) ==
    /\ LET r == ori_brief(files, limit)
       IN op' = [kind |-> "ori_brief", limit |-> limit, raised |-> r.raised, status |-> r.status,
                 snapshot_time_utc |-> r.snapshot_time_utc,
                 previous_snapshot_time_utc |-> r.previous_snapshot_time_utc,
                 active_regimes |-> r.active_regimes,
                 active_regime_deltas |-> r.active_regime_deltas,
                 leo_zones_latest |-> r.leo_zones_latest]
    /\ UNCHANGED <<files, source, tracked, now, cache, runs>>

\* a call of read_latest_history_snapshot()
ReadLatest ==
    /\ op' = [kind |-> "read_latest_history_snapshot",
              latest |-> read_latest_history_snapshot(files)]
    /\ UNCHANGED <<files, source, tracked, now, cache, runs>>

\* a call of load_history_points()
LoadHistoryPoints ==
    /\ LET r == load_history_points(files)
       IN op' = [kind |-> "load_history_points", raised |-> r.raised, points |-> r.points]
    /\ UNCHANGED <<files, source, tracked, now, cache, runs>>

\* the readers, the delta endpoints and the validator over a history
\* directory that holds tool snapshots and bad files
NextReaders ==
    \/ \E d \in 1 .. MaxFiles, text \in ReaderTexts : PlaceHistoryFile(d, text)
    \/ \E limit \in 1 .. MaxLimit : HistoryActiveRegimes(limit)
    \/ \E limit \in 0 .. MaxLimit, include_deltas \in BOOLEAN : HistoryLeoZones(limit, include_deltas)
    \/ ActiveRegimesDelta
    \/ \E limit \in 0 .. MaxLimit : OriBrief(limit)
    \/ ReadLatest
    \/ LoadHistoryPoints
    \/ Validate

SpecReaders == Init /\ [][NextReaders]_vars

\* the files the read-only operations are run over: a tool snapshot, a text
\* that is no JSON, a JSON list
ReadOnlyTexts == { ToolText(1, TableA, 1), InvalidJson, TopLevelList }

\* the operations that only read the history directory
NextReadOnly ==
    \/ \E d \in 1 .. MaxFiles, text \in ReadOnlyTexts : PlaceHistoryFile(d, text)
    \/ \E limit \in 1 .. MaxLimit : HistoryActiveRegimes(limit)
    \/ \E limit \in 1 .. MaxLimit : HistoryLeoZones(limit, TRUE)
    \/ ActiveRegimesDelta
    \/ \E limit \in 1 .. MaxLimit : OriBrief(limit)
    \/ ReadLatest
    \/ LoadHistoryPoints
    \/ Validate

SpecReadOnly == Init /\ [][NextReadOnly]_vars

\* classify_regime applied to every pair of the sample values
ClassifyRegime(mm, ecc) ==
    /\ op' = [kind |-> "classify_regime", mm |-> mm, ecc |-> ecc, result |-> classify_regime(mm, ecc)]
    /\ UNCHANGED <<files, source, tracked, now, cache, runs>>

NextClassify == \E mm \in MeanMotions, ecc \in Eccentricities : ClassifyRegime(mm, ecc)

SpecClassify == Init /\ [][NextClassify]_vars

\* load_active_catalog and count_active_regimes applied to every source table
\* of at most MaxRows sample rows
InitCatalog ==
    /\ files = <<>>
    /\ source \in { [exists |-> TRUE, mtime |-> 1, rows |-> rows] : rows \in SeqsUpTo(SampleRows, MaxRows) }
    /\ tracked = "absent"
    /\ now = 0
    /\ cache = <<>>
    /\ runs = NoRuns
    /\ op = [kind |-> "init"]

LoadAndCount ==
    /\ op.kind = "init"
    /\ LET cat == load_active_catalog(source)
       IN op' = [kind |-> "count_active_regimes", raised |-> cat.raised, objects |-> cat.rows,
                 counts |-> count_active_regimes(cat.rows)]
    /\ UNCHANGED <<files, source, tracked, now, cache, runs>>

NextCatalog == LoadAndCount

SpecCatalog == InitCatalog /\ [][NextCatalog]_vars

----------------------------------------------------------------------------
(* Properties *)

\* the snapshot records in the history store
HistoryPaths(fs) == { p \in DOMAIN fs : InHistoryDir(p) }

StoredRecords(fs) == { JsonLoads(fs[d]).obj : d \in {e \in HistoryPaths(fs) : JsonLoads(fs[e]).ok} }

\* the stored records generated last (greatest snapshot_time_utc)
MostRecent(fs) ==
    { r \in StoredRecords(fs) :
        \A q \in StoredRecords(fs) : q["snapshot_time_utc"] <= r["snapshot_time_utc"] }

SortedByTime(seq) ==
    \A i, j \in DOMAIN seq : i < j => seq[i]["snapshot_time_utc"] <= seq[j]["snapshot_time_utc"]

SnapshotFields ==
    { "snapshot_time_utc", "data_snapshot_time_utc", "active_regimes", "leo_zones", "tracked_objects" }

\* C1: a run without --force, over a non-empty store whose most recently
\* generated record carries the current source timestamp, returns 2 and leaves
\* every file as it was.
C1_UnchangedSourceRefused ==
    [][ ( /\ op'.kind = "run"
          /\ ~op'.force
          /\ StoredRecords(files) # {}
          /\ \E r \in MostRecent(files) :
                r["data_snapshot_time_utc"] = get_snapshot_timestamp_iso(source) )
        => (op'.rc = 2 /\ files' = files) ]_vars

\* C2: when the tool is never run with --force, no two records of the history
\* store carry the same data_snapshot_time_utc.
C2_NoDuplicateSourceTimestamp ==
    \A d, e \in HistoryPaths(files) :
        d # e => JsonLoads(files[d]).obj["data_snapshot_time_utc"]
                   # JsonLoads(files[e]).obj["data_snapshot_time_utc"]

\* C3: write_snapshot_file targets --out, else <--date>.json, else <today>.json;
\* without force it never changes an existing file and raises SystemExit when
\* the target exists; with force it writes the snapshot, replacing what was there.
C3_WriteConflictGuard ==
    [][ (op'.kind = "run" /\ op'.target # NoArg) =>
        LET target == IF op'.out # NoArg THEN op'.out
                      ELSE IF op'.date # NoArg THEN op'.date
                      ELSE DateOf(now)
        IN /\ op'.target = target
           /\ \A p \in DOMAIN files \ {target} : p \in DOMAIN files' /\ files'[p] = files[p]
           /\ DOMAIN files' \subseteq DOMAIN files \cup {target}
           /\ (~op'.force /\ target \in DOMAIN files)
                 => (op'.error = "SystemExit" /\ op'.rc = 1 /\ files' = files)
           /\ (op'.force \/ target \notin DOMAIN files)
                 => /\ op'.rc = 0
                    /\ target \in DOMAIN files'
                    /\ files'[target] = JsonDumps(op'.snapshot)
                    /\ target \in DOMAIN files => files'[target] # files[target] ]_vars

C3_Witness ==
    /\ op.kind = "run"
    /\ ~op.force
    /\ op.error = "SystemExit"
    /\ op.out = NoArg
    /\ op.date = NoArg
    /\ op.target \in DOMAIN files

\* C4: the records the history and delta operations consume
\* (_load_history_files, load_history_points) are in ascending order of the
\* snapshot_time_utc they contain.
C4_ReadAllSortedByTime ==
    /\ SortedByTime(_load_history_files(files))
    /\ SortedByTime(load_history_points(files).points)

\* C5: with one record stored, for source timestamp T, and the source still at
\* T: a run without --force is refused (UnchangedSource); a run with --force to
\* a free location of the store succeeds, and readAll() then lists the first
\* record and after it the new one, in snapshot_time_utc order.
C5_ForcedDuplicateOrderedAfterFirst ==
    [][ ( /\ op'.kind = "run"
          /\ Cardinality(HistoryPaths(files)) = 1
          /\ \A r \in StoredRecords(files) :
                r["data_snapshot_time_utc"] = get_snapshot_timestamp_iso(source) )
        => /\ ~op'.force => (op'.rc = 2 /\ op'.error = "UnchangedSource")
           /\ ( /\ op'.force
                /\ op'.rc = 0
                /\ InHistoryDir(op'.target)
                /\ op'.target \notin DOMAIN files )
              => LET first == CHOOSE r \in StoredRecords(files) : TRUE
                     all == _load_history_files(files')
                 IN /\ Len(all) = 2
                    /\ all[1] = first
                    /\ all[2]["snapshot_time_utc"] = op'.snapshot.snapshot_time_utc
                    /\ all[1]["snapshot_time_utc"] < all[2]["snapshot_time_utc"] ]_vars

\* C6: every snapshot a run wrote into the history store is read back by
\* readAll() with equal snapshot_time_utc, data_snapshot_time_utc,
\* active_regimes, leo_zones and tracked_objects.
C6_HistoryRoundTrip ==
    (op.kind = "run" /\ op.rc = 0 /\ InHistoryDir(op.target)) =>
        \E i \in DOMAIN _load_history_files(files) :
            \A f \in SnapshotFields :
                /\ f \in DOMAIN _load_history_files(files)[i]
                /\ _load_history_files(files)[i][f] = op.snapshot[f]

C6_Witness ==
    /\ op.kind = "run"
    /\ op.rc = 0
    /\ InHistoryDir(op.target)
    /\ op.snapshot.active_regimes.LEO = 2
    /\ Len(_load_history_files(files)) >= 2

\* C7: ori_history_active_regimes returns the last min(limit, N) stored
\* records in order; the first point has all deltas 0 and every later point's
\* delta is its count minus the count of the point returned before it.
C7_RegimeDeltaLaw ==
    op.kind = "ori_history_active_regimes" =>
        LET all == _load_history_files(files)
            n == IF op.limit <= Len(all) THEN op.limit ELSE Len(all)
            pts == op.points
        IN /\ Len(pts) = n
           /\ \A i \in 1 .. n :
                LET s == all[Len(all) - n + i]
                IN /\ pts[i].snapshot_time_utc = s["snapshot_time_utc"]
                   /\ pts[i].leo_active = s["active_regimes"]["LEO"]
                   /\ pts[i].meo_active = s["active_regimes"]["MEO"]
                   /\ pts[i].geo_active = s["active_regimes"]["GEO"]
                   /\ i = 1 => /\ pts[i].delta_leo = 0
                               /\ pts[i].delta_meo = 0
                               /\ pts[i].delta_geo = 0
                   /\ i > 1 => /\ pts[i].delta_leo = pts[i].leo_active - pts[i - 1].leo_active
                               /\ pts[i].delta_meo = pts[i].meo_active - pts[i - 1].meo_active
                               /\ pts[i].delta_geo = pts[i].geo_active - pts[i - 1].geo_active

C7_Witness ==
    /\ op.kind = "ori_history_active_regimes"
    /\ op.limit < Len(_load_history_files(files))
    /\ Len(op.points) >= 2
    /\ op.points[1].leo_active > 0
    /\ op.points[2].delta_leo > 0
    /\ op.points[2].delta_meo < 0

\* C8: with include_deltas, every zone row of a non-first point has
\* delta_count = count - previous count and delta_zpi = zpi - previous zpi,
\* a label absent from the previous point counting as previous count 0, zpi 0.
C8_ZoneDeltaBaseline ==
    (op.kind = "ori_history_leo_zones" /\ op.include_deltas) =>
        \A i \in 2 .. Len(op.points) :
            \A k \in DOMAIN op.points[i].zones :
                LET row == op.points[i].zones[k]
                    prevRows == { q \in DOMAIN op.points[i - 1].zones :
                                    op.points[i - 1].zones[q].zone_label = row.zone_label }
                    prevCount == IF prevRows = {} THEN 0
                                 ELSE op.points[i - 1].zones[CHOOSE q \in prevRows : TRUE].count
                    prevZpi == IF prevRows = {} THEN 0
                               ELSE op.points[i - 1].zones[CHOOSE q \in prevRows : TRUE].zpi
                IN /\ row.delta_count = row.count - prevCount
                   /\ row.delta_zpi = row.zpi - prevZpi

\* C9: classify_regime gives every (mean_motion, eccentricity) exactly one
\* outcome: LEO iff mm >= 11.25 and ecc < 0.25; GEO iff 0.95 <= mm <= 1.05 and
\* ecc < 0.25; MEO iff 1.05 < mm < 11.25 and ecc < 0.25; None otherwise.
C9_ClassifyRegimePartition ==
    op.kind = "classify_regime" =>
        LET mm == op.mm
            ecc == op.ecc
            num == mm # NaN /\ ecc # NaN
            small == num /\ ecc < 25
        IN /\ op.result \in {"LEO", "MEO", "GEO", "None"}
           /\ op.result = "LEO" <=> (small /\ mm >= 1125)
           /\ op.result = "GEO" <=> (small /\ 95 <= mm /\ mm <= 105)
           /\ op.result = "MEO" <=> (small /\ 105 < mm /\ mm < 1125)
           /\ op.result = "None" <=> (~small \/ mm < 95)

C9_Witness ==
    /\ op.kind = "classify_regime"
    /\ op.mm = 105
    /\ op.ecc = 24
    /\ op.result = "GEO"

\* C10: regime_counts[X] is the number of loaded records that classify to X;
\* a record is counted in at most one regime, unclassified records and dropped
\* rows in none, so LEO + MEO + GEO <= number of records <= number of rows.
C10_RegimeAggregation ==
    (op.kind = "count_active_regimes" /\ op.raised = "") =>
        LET recs == op.objects
            in(X) == { i \in DOMAIN recs : classify_regime(recs[i].mean_motion, recs[i].eccentricity) = X }
            produced == { i \in DOMAIN source.rows : RowRecords(source.rows[i]) # <<>> }
        IN /\ op.counts.LEO = Cardinality(in("LEO"))
           /\ op.counts.MEO = Cardinality(in("MEO"))
           /\ op.counts.GEO = Cardinality(in("GEO"))
           /\ DOMAIN op.counts = {"LEO", "MEO", "GEO"}
           /\ Len(recs) = Cardinality(produced)
           /\ op.counts.LEO + op.counts.MEO + op.counts.GEO
                = Len(recs) - Cardinality(in("None"))
           /\ op.counts.LEO + op.counts.MEO + op.counts.GEO <= Len(recs)

C10_Witness ==
    /\ op.kind = "count_active_regimes"
    /\ op.raised = ""
    /\ Len(source.rows) = 2
    /\ Len(op.objects) = 1
    /\ op.counts.LEO + op.counts.MEO + op.counts.GEO = 1

\* the rows the loader's policy keeps: a name that is not blank after trimming,
\* and two numeric fields that are each a number, or empty or missing (then 0.0)
PolicyNumber(field) == field.t \in {"num", "empty", "none", "nocol"}

PolicyKeeps(raw) ==
    /\ raw.OBJECT_NAME.t = "text"
    /\ Strip(raw.OBJECT_NAME.s) # <<>>
    /\ PolicyNumber(raw.MEAN_MOTION)
    /\ PolicyNumber(raw.ECCENTRICITY)

PolicyRecord(raw) ==
    [object_name |-> Strip(raw.OBJECT_NAME.s),
     mean_motion |-> IF raw.MEAN_MOTION.t = "num" THEN raw.MEAN_MOTION.v ELSE 0,
     eccentricity |-> IF raw.ECCENTRICITY.t = "num" THEN raw.ECCENTRICITY.v ELSE 0]

\* C11: load_active_catalog never raises over an existing source; it returns,
\* in source-row order, one record for each row whose trimmed OBJECT_NAME is
\* non-empty and whose MEAN_MOTION and ECCENTRICITY are numbers (0.0 when empty
\* or missing), and drops every other row without affecting the rows after it.
C11_LoaderRowPolicy ==
    op.kind = "count_active_regimes" =>
        LET kept == SelectSeq(source.rows, PolicyKeeps)
        IN /\ op.raised = ""
           /\ op.objects = [i \in DOMAIN kept |-> PolicyRecord(kept[i])]

\* C12: with the source absent, load_active_catalog raises FileNotFoundError,
\* get_snapshot_timestamp_iso is "unknown", and a run of the tool ends with a
\* non-zero exit status and leaves every file as it was.
C12_MissingSourceFails ==
    [][ (op'.kind = "run" /\ ~source.exists) =>
          /\ load_active_catalog(source).raised = "FileNotFoundError"
          /\ get_snapshot_timestamp_iso(source) = Unknown
          /\ op'.rc # 0
          /\ files' = files ]_vars

C12_Witness ==
    /\ op.kind = "run"
    /\ ~source.exists
    /\ op.force
    /\ op.rc = 1
    /\ op.error = "FileNotFoundError"
    /\ files # <<>>

\* C13: a get() over a filled slot returns the slot's result without calling
\* the loader, whatever the source is now; a get() over an empty slot calls the
\* loader, stores its result if it returned and leaves the slot empty if it
\* raised; invalidate() empties the slot; nothing else changes the slot, which
\* never holds more than one result.
C13_SingleSlotCache ==
    [][ /\ Len(cache') <= 1
        /\ op'.kind \notin {"load_active_catalog_cached", "clear_catalog_cache"} => cache' = cache
        /\ op'.kind = "clear_catalog_cache" => cache' = <<>>
        /\ (op'.kind = "load_active_catalog_cached" /\ cache # <<>>) =>
              /\ ~op'.loaded
              /\ op'.raised = ""
              /\ op'.rows = cache[1]
              /\ cache' = cache
        /\ (op'.kind = "load_active_catalog_cached" /\ cache = <<>>) =>
              /\ op'.loaded
              /\ op'.raised = load_active_catalog(source).raised
              /\ op'.raised = "" => (op'.rows = load_active_catalog(source).rows
                                       /\ cache' = << op'.rows >>)
              /\ op'.raised # "" => cache' = <<>> ]_vars

\* a hit that returns the result loaded before the source changed
C13_Witness ==
    /\ op.kind = "load_active_catalog_cached"
    /\ ~op.loaded
    /\ source.exists
    /\ load_active_catalog(source).raised = ""
    /\ op.rows # load_active_catalog(source).rows

\* the pressure index function an operation applied
PressureFn(fn, count, cohort_max) ==
    IF fn = "zone" THEN compute_zone_pressure(count, cohort_max)
    ELSE compute_fleet_pressure(count, cohort_max)

\* C14: the pressure index is 0.0 when cohort_max <= 0; otherwise it is
\* min(100, 100 * count / cohort_max) rounded to one decimal (within half a
\* tenth of it); it lies in [0, 100] for count >= 0, does not decrease when
\* count grows, and is exactly 100.0 for count >= cohort_max > 0.
C14_PressureIndex ==
    op.kind = "pressure" =>
        LET c == op.count
            m == op.cohort_max
            res == op.result
            err == res * m - 100 * PI_UNIT * c
        IN /\ m <= 0 => res = 0
           /\ (m > 0 /\ c >= m) => res = 100 * PI_UNIT
           /\ (m > 0 /\ c < m) => (2 * err <= m /\ -2 * err <= m)
           /\ c >= 0 => (0 <= res /\ res <= 100 * PI_UNIT)
           /\ res <= PressureFn(op.fn, c + 1, m)

\* 6/16 = 37.5 needs no rounding; 7/16 = 43.75 is rounded to 43.8
C14_Witness ==
    /\ op.kind = "pressure"
    /\ op.fn = "zone"
    /\ op.count = 7
    /\ op.cohort_max = 16
    /\ op.result = 438

\* C15: the zone rows of a snapshot are LEO-1, LEO-2, LEO-3, LEO-4 in that
\* order, and each row's zpi is the pressure index of its count against the
\* greatest zone count of the snapshot, rounded to one decimal: 100.0 for the
\* fullest zone, 0.0 for an empty zone and for every zone when all are empty.
C15_SnapshotZoneRows ==
    (op.kind = "compute_leo_zones" /\ op.raised = "") =>
        LET counts == [i \in DOMAIN op.zones |-> op.zones[i].count]
        IN /\ [i \in DOMAIN op.zones |-> op.zones[i].zone_label]
                 = << "LEO-1", "LEO-2", "LEO-3", "LEO-4" >>
           /\ \A i \in DOMAIN op.zones :
                 /\ op.zones[i].zpi * PI_UNIT
                      = compute_zone_pressure(counts[i], MaxOf(counts)) * ZPI_UNIT
                 /\ (counts[i] = MaxOf(counts) /\ counts[i] > 0)
                      => op.zones[i].zpi = 100 * ZPI_UNIT
                 /\ counts[i] = 0 => op.zones[i].zpi = 0

\* the sum of the four zone counts of a snapshot
RECURSIVE SumCounts(_)
SumCounts(zones) == IF zones = <<>> THEN 0 ELSE Head(zones).count + SumCounts(Tail(zones))

\* C16: in every snapshot a run of the tool builds, the four leo_zones counts
\* add up to at most active_regimes.LEO: only records passing the LEO filter
\* (mean motion >= 11.25, eccentricity < 0.25) are counted in a zone.
C16_ZonesCountOnlyLeo ==
    (op.kind = "run" /\ op.rc = 0) =>
        SumCounts(op.snapshot.leo_zones) <= op.snapshot.active_regimes.LEO

\* the objects of a catalog whose altitude is a number inside the zone z
ObjectsInZone(objects, z) ==
    { j \in DOMAIN objects :
        LET alt == mean_motion_to_altitude_km(objects[j].mean_motion)
        IN alt.k = "km" /\ z.lo <= alt.km /\ alt.km < z.hi }

\* C17: for every catalog, also one holding records whose altitude is None
\* (mean motion <= 0, altitude < 0 or > 100000 km), the zone computation
\* returns; such a record is in no zone count, and the regime counts are those
\* of classify_regime over all records.
C17_AltitudeOutOfRange ==
    op.kind = "compute_leo_zones" =>
        /\ op.raised = ""
        /\ \A i \in DOMAIN ZONES :
              op.zones[i].count = Cardinality(ObjectsInZone(op.objects, ZONES[i]))
        /\ \A r \in {"LEO", "MEO", "GEO"} :
              op.active_regimes[r]
                = Cardinality({ j \in DOMAIN op.objects :
                                  classify_regime(op.objects[j].mean_motion,
                                                  op.objects[j].eccentricity) = r })

\* C18: leo_zone_for_altitude gives LEO-1 on [300,500), LEO-2 on [500,800),
\* LEO-3 on [800,1200), LEO-4 on [1200,2000) and OTHER elsewhere, a boundary
\* belonging to the upper bin, and the inline binning of
\* compute_leo_zones_from_active_catalog gives the same label.
C18_ZoneForAltitude ==
    op.kind = "leo_zone_for_altitude" =>
        LET a == op.alt_km
        IN /\ op.label = "LEO-1" <=> (300 <= a /\ a < 500)
           /\ op.label = "LEO-2" <=> (500 <= a /\ a < 800)
           /\ op.label = "LEO-3" <=> (800 <= a /\ a < 1200)
           /\ op.label = "LEO-4" <=> (1200 <= a /\ a < 2000)
           /\ op.label = "OTHER" <=> (a < 300 \/ a >= 2000)
           /\ op.inline = op.label

C18_Witness ==
    /\ op.kind = "leo_zone_for_altitude"
    /\ op.alt_km = 1200
    /\ op.label = "LEO-4"
    /\ op.inline = "LEO-4"

\* the files of the history directory that parse to a JSON object
ObjectFiles(fs) ==
    { d \in HistoryPaths(fs) : JsonLoads(fs[d]).ok /\ IsObjectText(fs[d]) }

ProblemFiles(problems) == { problems[i].file : i \in DOMAIN problems }

\* C19: when two records of the store share data_snapshot_time_utc, validate
\* reports a problem for the later file, also when their snapshot_time_utc
\* differ; when two share snapshot_time_utc it reports a duplicate for the later.
C19_ValidatorDuplicates ==
    (op.kind = "validate" /\ op.raised = "") =>
        \A d, e \in ObjectFiles(files) :
            LET a == JsonLoads(files[d]).obj
                b == JsonLoads(files[e]).obj
            IN d < e =>
                /\ ( /\ "data_snapshot_time_utc" \in DOMAIN a
                     /\ "data_snapshot_time_utc" \in DOMAIN b
                     /\ a["data_snapshot_time_utc"] = b["data_snapshot_time_utc"] )
                   => e \in ProblemFiles(op.problems)
                /\ ( /\ "snapshot_time_utc" \in DOMAIN a
                     /\ "snapshot_time_utc" \in DOMAIN b
                     /\ a["snapshot_time_utc"] = b["snapshot_time_utc"] )
                   => \E i \in DOMAIN op.problems :
                         op.problems[i] = Problem(e, "Duplicate snapshot_time_utc")

\* the active_regimes block of a record is absent, lacks a key or has a
\* negative count
BadRegimes(data) ==
    \/ "active_regimes" \notin DOMAIN data
    \/ \E k \in {"LEO", "MEO", "GEO"} :
          k \notin DOMAIN data["active_regimes"] \/ data["active_regimes"][k] < 0

RegimeMessages ==
    { "Missing or invalid active_regimes", "active_regimes missing key",
      "active_regimes must be non-negative" }

\* C20: validate reaches its report for every store; a file that is invalid
\* JSON or whose top-level value is no object yields a problem for that file;
\* and a record with a bad active_regimes block yields an active_regimes
\* problem whatever its other fields are.
C20_ValidatorCompleteness ==
    op.kind = "validate" =>
        /\ op.raised = ""
        /\ \A d \in HistoryPaths(files) :
              /\ d \notin ObjectFiles(files) => d \in ProblemFiles(op.problems)
              /\ (d \in ObjectFiles(files) /\ BadRegimes(JsonLoads(files[d]).obj))
                    => \E i \in DOMAIN op.problems :
                          /\ op.problems[i].file = d
                          /\ op.problems[i].message \in RegimeMessages

ZoneMessages ==
    { "Missing leo_zones or zones", "zones must be a non-empty list",
      "zones entry must be an object", "zones missing keys",
      "zone_label must be a non-empty string", "Duplicate zone_label",
      "count must be a number", "zpi must be a number", "zpi out of range" }

\* the zone list of a record, leo_zones before the legacy zones
ZoneListOf(data) ==
    IF "leo_zones" \in DOMAIN data THEN data["leo_zones"] ELSE data["zones"]

\* one entry of a zone list breaks a condition of the zone contract
BadZoneEntry(zs, i) ==
    \/ zs[i] = NotAnObject
    \/ ~({"zone_label", "count", "zpi"} \subseteq DOMAIN zs[i])
    \/ zs[i]["zone_label"] \in BlankLabels \cup {NonStringLabel}
    \/ \E j \in 1 .. i - 1 :
          /\ zs[j] # NotAnObject
          /\ {"zone_label", "count", "zpi"} \subseteq DOMAIN zs[j]
          /\ zs[j]["zone_label"] = zs[i]["zone_label"]
    \/ zs[i]["count"] = NonNumber
    \/ zs[i]["zpi"] = NonNumber
    \/ zs[i]["zpi"] < 0
    \/ zs[i]["zpi"] > 100 * ZPI_UNIT

\* the zone list of a record is missing, no list, empty, or has a bad entry
BadZoneList(data) ==
    \/ ~("leo_zones" \in DOMAIN data \/ "zones" \in DOMAIN data)
    \/ ZoneListOf(data) = NotAList
    \/ ZoneListOf(data) = <<>>
    \/ \E i \in DOMAIN ZoneListOf(data) : BadZoneEntry(ZoneListOf(data), i)

\* C21: for every stored record, validate reports a zone problem iff the zone
\* list (leo_zones, else zones) is missing, no list, empty, or has an entry
\* that is no object, lacks a key, has a blank or non-string or repeated
\* label, a non-numeric count or zpi, or a zpi outside 0..100.
C21_ValidatorZoneChecks ==
    op.kind = "validate" =>
        \A d \in ObjectFiles(files) :
            (\E i \in DOMAIN op.problems :
                /\ op.problems[i].file = d
                /\ op.problems[i].message \in ZoneMessages)
            <=> BadZoneList(JsonLoads(files[d]).obj)

\* the same statement for the runs of validate that reach the report
C21_WhenReported ==
    (op.kind = "validate" /\ op.raised = "") =>
        \A d \in ObjectFiles(files) :
            (\E i \in DOMAIN op.problems :
                /\ op.problems[i].file = d
                /\ op.problems[i].message \in ZoneMessages)
            <=> BadZoneList(JsonLoads(files[d]).obj)

\* C22: the validator returns 0 iff the aggregated problem list is empty and 1
\* otherwise, and emits exactly one line per problem; a store without any
\* snapshot file counts as a problem (exit 1).
C22_ValidatorExitStatus ==
    op.kind = "validate" =>
        /\ op.rc \in {0, 1}
        /\ op.rc = 0 <=> op.collected = <<>>
        /\ op.problems = op.collected
        /\ HistoryPaths(files) = {} => op.rc = 1

\* the same statement for the runs of validate that reach the report
C22_WhenReported ==
    (op.kind = "validate" /\ op.raised = "") =>
        /\ op.rc \in {0, 1}
        /\ op.rc = 0 <=> op.collected = <<>>
        /\ op.problems = op.collected
        /\ HistoryPaths(files) = {} => op.rc = 1

\* the filename-last file of the store is readable and carries the source's
\* current timestamp
LatestHasSourceTime ==
    /\ HistoryPaths(files) # {}
    /\ LET last == CHOOSE d \in HistoryPaths(files) : \A e \in HistoryPaths(files) : e <= d
           r == JsonLoads(files[last])
       IN /\ r.ok
          /\ "data_snapshot_time_utc" \in DOMAIN r.obj
          /\ r.obj["data_snapshot_time_utc"] = get_snapshot_timestamp_iso(source)

\* the step is a run of the tool that stored its snapshot at its target
WroteRecord ==
    /\ op'.snapshot # <<>>
    /\ op'.target \in DOMAIN files'
    /\ files'[op'.target] = JsonDumps(op'.snapshot)
    /\ op'.target \notin DOMAIN files \/ op'.force

\* C23: a run returns 0 iff it wrote a record; an unforced run over an
\* unchanged source returns 2, an unforced run onto an existing target returns
\* 1, both without touching a file; when both hold the run returns 2.
C23_ToolExitStatuses ==
    [][ op'.kind = "run" =>
          /\ op'.rc \in {0, 1, 2}
          /\ op'.rc = 0 <=> WroteRecord
          /\ op'.rc # 0 => files' = files
          /\ (LatestHasSourceTime /\ ~op'.force) => op'.rc = 2
          /\ ( /\ ~LatestHasSourceTime
               /\ ~op'.force
               /\ TargetPath(op'.date, op'.out, now) \in DOMAIN files ) => op'.rc = 1
       ]_vars

\* an unforced run was refused with 2 while its target existed as well
C23_Witness ==
    /\ op.kind = "run"
    /\ ~op.force
    /\ op.rc = 2
    /\ TargetPath(op.date, op.out, now - 1) \in DOMAIN files

\* the operations of the core: generation runs, readers, validator
CoreOps ==
    { "run", "ori_history_active_regimes", "ori_history_leo_zones", "validate" }

\* C24: once a record is stored, no later core operation (a generation run
\* with or without force, a reader, the validator) changes the content
\* stored at its location.
C24_StoredRecordsImmutable ==
    [][ op'.kind \in CoreOps =>
          \A d \in DOMAIN files : d \in DOMAIN files' /\ files'[d] = files[d] ]_vars

\* C26: when the window of ori_brief holds a single snapshot (limit = 1, or
\* one record in the store) its active_regime_deltas are all 0; when it holds
\* at least two, the deltas are latest - previous for LEO, MEO, GEO.
C26_BriefWindowRule ==
    (op.kind = "ori_brief" /\ op.raised = "") =>
        LET snaps == LastN(_load_history_files(files), BriefWindow(op.limit))
            n == Len(snaps)
        IN /\ n = 1 => /\ op.snapshot_time_utc = snaps[1]["snapshot_time_utc"]
                       /\ op.active_regime_deltas = [LEO |-> 0, MEO |-> 0, GEO |-> 0]
           /\ n >= 2 => \A k \in {"LEO", "MEO", "GEO"} :
                          op.active_regime_deltas[k] =
                              snaps[n]["active_regimes"][k] - snaps[n - 1]["active_regimes"][k]

\* the file d holds a record the readers can use: an object with
\* snapshot_time_utc, a well-typed active_regimes block and well-typed zones
UsableRecord(d) ==
    /\ d \in ObjectFiles(files)
    /\ LET data == JsonLoads(files[d]).obj
       IN /\ "snapshot_time_utc" \in DOMAIN data
          /\ "active_regimes" \in DOMAIN data
          /\ data["active_regimes"] # NotADict
          /\ \A k \in DOMAIN data["active_regimes"] : data["active_regimes"][k] # NonNumber
          /\ ~BadZoneList(data)

\* C27: a bad snapshot file (invalid JSON, no snapshot_time_utc or
\* active_regimes, wrong-typed active_regimes or zone fields) never makes
\* ori_history_active_regimes, ori_history_leo_zones, get_active_regimes_delta
\* or ori_brief fail, and the usable records are still returned.
C27_ReadersTolerateBadFiles ==
    /\ op.kind \in {"ori_history_active_regimes", "ori_history_leo_zones"} =>
          /\ op.raised = ""
          /\ op.limit >= Cardinality(HistoryPaths(files)) =>
                \A d \in HistoryPaths(files) :
                    UsableRecord(d) =>
                        \E i \in DOMAIN op.points :
                            op.points[i].snapshot_time_utc
                                = JsonLoads(files[d]).obj["snapshot_time_utc"]
    /\ op.kind \in {"get_active_regimes_delta", "ori_brief"} =>
          \/ op.raised = ""
          \/ /\ op.status = 400
             /\ Cardinality({d \in HistoryPaths(files) : UsableRecord(d)}) < 2

\* the same statement for stores whose bad files are only files that are no
\* JSON object or lack snapshot_time_utc or active_regimes
C27_WhenWellTyped ==
    (\A d \in HistoryPaths(files) :
        UsableRecord(d)
        \/ d \notin ObjectFiles(files)
        \/ ~({"snapshot_time_utc", "active_regimes"} \subseteq DOMAIN JsonLoads(files[d]).obj))
    => C27_ReadersTolerateBadFiles

ReadOps ==
    { "validate", "ori_history_active_regimes", "ori_history_leo_zones",
      "get_active_regimes_delta", "ori_brief", "read_latest_history_snapshot",
      "load_history_points" }

\* C25: validate, the history readers and the delta computations leave the
\* set of files of the history store and the content of each file unchanged,
\* also for stores with malformed files.
C25_ReadOnlyOperations ==
    [][ op'.kind \in ReadOps => files' = files ]_vars

\* the validator has run over a store that holds a file that is no JSON
C25_Witness ==
    /\ op.kind = "validate"
    /\ \E d \in HistoryPaths(files) : ~JsonLoads(files[d]).ok

\* both runs returned 0 for one and the same target
BothSucceeded(p, q) ==
    /\ p # q
    /\ runs[p].pc = "done" /\ runs[p].rc = 0
    /\ runs[q].pc = "done" /\ runs[q].rc = 0
    /\ runs[p].target = runs[q].target
    /\ runs[p].write_no < runs[q].write_no

\* C28: the exists() test and the write of write_snapshot_file are not
\* atomic: an unforced run never writes after it saw its target, but two
\* unforced runs may both return 0 for one target, and this happens only when
\* the later writer made its test before the earlier wrote; the later write
\* then replaces the earlier record.
C28_NoWriteLock ==
    /\ \A p \in Writers :
          (runs[p].pc = "done" /\ runs[p].check_no > 0) =>
              (runs[p].rc = 0 <=> runs[p].write_no > 0)
    /\ \A p, q \in Writers :
          BothSucceeded(p, q) =>
              /\ runs[q].check_no < runs[p].write_no
              /\ files[runs[q].target] = JsonDumps(runs[q].snapshot)
              /\ files[runs[q].target] # JsonDumps(runs[p].snapshot)

\* two unforced runs returned 0 for the same target
C28_Witness ==
    \E p, q \in Writers : BothSucceeded(p, q)

\* C29: in a response of get_active_regimes or get_global_risk_summary the
\* timestamp is the last-modified time of the source content the counts were
\* computed from: the source file with that timestamp holds the catalog that
\* gives these counts.
C29_TimestampMatchesData ==
    (op.kind \in {"get_active_regimes", "get_global_risk_summary"} /\ op.raised = "") =>
        /\ source.exists
        /\ op.snapshot_time_utc = source.mtime
        /\ op.counts = count_active_regimes(load_active_catalog(source).rows)

\* the same for the generation run: when a run builds its snapshot, the
\* data_snapshot_time_utc it carries is the timestamp of the source it loads
C29_RunTimestampMatchesData ==
    [][ \A p \in Writers :
          (runs[p].pc = "build" /\ runs'[p].pc = "exists") =>
              runs'[p].snapshot["data_snapshot_time_utc"] = get_snapshot_timestamp_iso(source) ]_vars

\* the filename-last file of the store is no JSON
LastUnreadable ==
    /\ HistoryPaths(files) # {}
    /\ ~JsonLoads(files[CHOOSE d \in HistoryPaths(files) : \A e \in HistoryPaths(files) : e <= d]).ok

\* C30: when the filename-last file of the store is no JSON, an unforced run
\* onto a free target writes its record and returns 0 without comparing source
\* timestamps, whatever the older records carry.
C30_UnreadableLatestDisablesGuard ==
    [][ ( /\ op'.kind = "run"
          /\ ~op'.force
          /\ LastUnreadable
          /\ TargetPath(op'.date, op'.out, now) \notin DOMAIN files
          /\ BuildSnapshot(source, tracked, now).raised = "" )
        => /\ op'.rc = 0
           /\ WroteRecord
           /\ \A d \in DOMAIN files : files'[d] = files[d] ]_vars

\* an unforced run returned 0 although an older readable record carries the
\* same data_snapshot_time_utc, the last file before the run being no JSON
C30_Witness ==
    /\ op.kind = "run" /\ ~op.force /\ op.rc = 0
    /\ \E d, e \in HistoryPaths(files) \ {op.target} :
          /\ d < e
          /\ \A x \in HistoryPaths(files) \ {op.target} : x <= e
          /\ ~JsonLoads(files[e]).ok
          /\ JsonLoads(files[d]).ok /\ IsObjectText(files[d])
          /\ JsonLoads(files[d]).obj["data_snapshot_time_utc"]
                = op.snapshot["data_snapshot_time_utc"]

====
